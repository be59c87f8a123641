---------------------------- MODULE TrashBinProofs ----------------------------
(***************************************************************************)
(* What TLAPS proves of TrashBin, for every value of its constants: types, *)
(* that no photo is overwritten when base names tell photos apart, and, of *)
(* every set of scenarios of MCTrashBin, that the stores agree and that a  *)
(* listing repairs the trash table.                                        *)
(***************************************************************************)
EXTENDS MCTrashBin, FiniteSetTheorems, TLAPS

LEMMA LocalShape ==
    ASSUME NEW l \in Local
    PROVE  /\ l.at = "next" =>
                l \in [at : {"next"}, todo : SUBSET Path, dir : TrashDirs \cup {NoDir}]
           /\ l.at = "choose" =>
                l \in [at : {"choose"}, todo : SUBSET Path, dir : TrashDirs, src : Path,
                       hash : MaybeHash]
           /\ l.at \in {"move", "record"} =>
                l \in [at : {"move", "record"}, todo : SUBSET Path, dir : TrashDirs,
                       src : Path, hash : MaybeHash, dst : Path]
           /\ l.at = "unlist" =>
                l \in [at : {"unlist"}, todo : SUBSET Path, dir : TrashDirs \cup {NoDir},
                       src : Path]
           /\ l.at = "rows" => l \in [at : {"rows"}, onDisk : SUBSET Path]
           /\ l.at = "reconcile" =>
                l \in [at : {"reconcile"}, backfill : SUBSET Path, prune : SUBSET Nat]
           /\ l.at = "target" =>
                l \in [at : {"target"}, id : Nat,
                       item : [trash : Path, original : Path, hash : MaybeHash]]
           /\ l.at \in {"restore", "relist"} =>
                l \in [at : {"restore", "relist"}, id : Nat, src : Path, dst : Path,
                       hash : MaybeHash]
           /\ l.at = "purge" => l \in [at : {"purge"}, id : Nat, src : Path]
           /\ l.at = "dropitem" => l \in [at : {"dropitem"}, id : Nat]
           /\ l.at = "clean" => l \in [at : {"clean"}, todo : SUBSET Path]
           /\ l.at = "destination" =>
                l \in [at : {"destination"}, src : Path, dir : Folders, n : Nat]
           /\ l.at \in {"carry", "repath"} =>
                l \in [at : {"carry", "repath"}, src : Path, dst : Path]
BY DEF Local, Idle, Deleting, Listing, Restoring, Purging, Carrying

LEMMA TagTyped ==
    ASSUME NEW p \in Path, NEW dir \in Folders \cup TrashDirs \cup {Cwd},
           NEW kind \in TagKinds, NEW n \in Nat
    PROVE  /\ In(dir, p) \in Path
           /\ InTagged(dir, p, kind, n) \in Path
           /\ In(dir, p).name.stem = p.name.stem
           /\ InTagged(dir, p, kind, n).name.stem = p.name.stem
  <1>1. p.name \in Name  BY DEF Path
  <1>2. p.name.tags \in Seq(TagKinds \X Nat) /\ <<kind, n>> \in TagKinds \X Nat  BY <1>1 DEF Name
  <1>3. Append(p.name.tags, <<kind, n>>) \in Seq(TagKinds \X Nat)  BY <1>2
  <1>4. Suffixed(p.name, kind, n) \in Name /\ Suffixed(p.name, kind, n).stem = p.name.stem
    BY <1>1, <1>3 DEF Name, Suffixed
  <1> QED  BY <1>1, <1>4 DEF In, InTagged, Path

\* The search for a free name goes on, or has found one.
LEMMA TryTyped ==
    ASSUME NEW r \in Requests, req \in [Requests -> Local], TryDestination(r)
    PROVE  /\ req[r].at = "destination" /\ UNCHANGED <<stores, env, purged>>
           /\ \E m \in Local :
                /\ Goto(r, m) /\ req'[r] = m /\ m.src = req[r].src
                /\ \/ m.at = "destination" /\ m.dir = req[r].dir
                   \/ /\ m.at = "carry" /\ m.dst \notin DOMAIN disk
                      /\ m.dst.dir = req[r].dir /\ m.dst.name.stem = m.src.name.stem
  <1> DEFINE l == req[r]
             dst == Candidate(l.dir, l.src, l.n)
             on == [l EXCEPT !.n = @ + 1]
             found == [at |-> "carry", src |-> l.src, dst |-> dst]
  <1>1. /\ l.at = "destination" /\ UNCHANGED <<stores, env, purged>>
        /\ dst \in DOMAIN disk => Goto(r, on)
        /\ dst \notin DOMAIN disk => Goto(r, found)
    BY DEF TryDestination
  <1>2. l \in Local  OBVIOUS
  <1>3. l \in [at : {"destination"}, src : Path, dir : Folders, n : Nat]
    BY <1>1, <1>2, LocalShape
  <1>4. dst \in Path /\ dst.dir = l.dir /\ dst.name.stem = l.src.name.stem
    <2>1. dst = In(l.dir, l.src) \/ dst = InTagged(l.dir, l.src, "copy", l.n)  BY DEF Candidate
    <2>2. "copy" \in TagKinds  BY DEF TagKinds
    <2>3. l.src \in Path /\ l.dir \in Folders /\ l.n \in Nat  BY <1>3
    <2>4. /\ In(l.dir, l.src) \in Path /\ InTagged(l.dir, l.src, "copy", l.n) \in Path
          /\ In(l.dir, l.src).name.stem = l.src.name.stem
          /\ InTagged(l.dir, l.src, "copy", l.n).name.stem = l.src.name.stem
      BY <2>2, <2>3, TagTyped
    <2>5. In(l.dir, l.src).dir = l.dir /\ InTagged(l.dir, l.src, "copy", l.n).dir = l.dir
      BY DEF In, InTagged
    <2> HIDE DEF dst
    <2> QED  BY <2>1, <2>4, <2>5
  <1> HIDE DEF dst
  <1>5. CASE dst \in DOMAIN disk
    <2>1. on \in [at : {"destination"}, src : Path, dir : Folders, n : Nat]
          /\ on.src = l.src /\ on.dir = l.dir
      BY <1>3
    <2> HIDE DEF on
    <2>2. on \in Local  BY <2>1 DEF Local, Carrying
    <2>3. req'[r] = on  BY <1>1, <1>5 DEF Goto
    <2> QED  BY <1>1, <1>5, <2>1, <2>2, <2>3
  <1>6. CASE dst \notin DOMAIN disk
    <2>1. found \in [at : {"carry", "repath"}, src : Path, dst : Path]
          /\ found.at = "carry" /\ found.src = l.src /\ found.dst = dst
      BY <1>3, <1>4
    <2> HIDE DEF found
    <2>2. found \in Local  BY <2>1 DEF Local, Carrying
    <2>3. req'[r] = found  BY <1>1, <1>6 DEF Goto
    <2> QED  BY <1>1, <1>4, <1>6, <2>1, <2>2, <2>3
  <1> QED  BY <1>5, <1>6

LEMMA WithTyped ==
    ASSUME NEW S, NEW f, f \in [DOMAIN f -> S], NEW p, NEW v \in S
    PROVE  /\ With(f, p, v) \in [DOMAIN With(f, p, v) -> S]
           /\ DOMAIN With(f, p, v) = DOMAIN f \cup {p}
           /\ With(f, p, v)[p] = v
           /\ \A q \in DOMAIN f : q # p => With(f, p, v)[q] = f[q]
BY DEF With

LEMMA WithoutTyped ==
    ASSUME NEW S, NEW f, f \in [DOMAIN f -> S], NEW P
    PROVE  /\ Lacking(f, P) \in [DOMAIN Lacking(f, P) -> S]
           /\ DOMAIN Lacking(f, P) = DOMAIN f \ P
           /\ \A q \in DOMAIN f \ P : Lacking(f, P)[q] = f[q]
BY DEF Lacking

LEMMA RenamedTyped ==
    ASSUME NEW S, NEW f, f \in [DOMAIN f -> S], NEW src \in DOMAIN f, NEW dst
    PROVE  /\ Renamed(f, src, dst) \in [DOMAIN Renamed(f, src, dst) -> S]
           /\ DOMAIN Renamed(f, src, dst) = (DOMAIN f \ {src}) \cup {dst}
           /\ Renamed(f, src, dst)[dst] = f[src]
           /\ \A q \in DOMAIN f \ {src} : q # dst => Renamed(f, src, dst)[q] = f[q]
BY DEF Renamed, With, Lacking

LEMMA InitTyped == TrashInit => TrashTypeOK
  <1> SUFFICES ASSUME TrashInit PROVE TrashTypeOK  OBVIOUS
  <1>1. disk \in [DOMAIN disk -> Contents] /\ DOMAIN disk \subseteq [dir : Folders, name : Name]
    BY InitialDisksAreGalleries DEF TrashInit
  <1>2. DiskOK  BY <1>1 DEF DiskOK, Path
  <1>3. ImagesOK  BY <1>2 DEF TrashInit, DiskOK, ImagesOK, MaybeHash
  <1>4. ItemsOK  BY DEF TrashInit, ItemsOK
  <1>5. ReqOK  BY DEF TrashInit, ReqOK, Local
  <1>6. EnvOK  BY DEF TrashInit, EnvOK
  <1> QED  BY <1>2, <1>3, <1>4, <1>5, <1>6 DEF TrashTypeOK

LEMMA GotoTyped ==
    ASSUME TrashTypeOK, NEW r \in Requests, NEW l \in Local, NEW endpoint,
           Goto(r, l) \/ StartRequest(r, endpoint, l)
    PROVE  ReqOK'
BY DEF TrashTypeOK, EnvOK, ReqOK, Goto, StartRequest

\* Steps that change nothing but what the goroutine holds
LEMMA ReadStepTyped ==
    ASSUME TrashTypeOK, NEW r \in Requests, NEW l \in Local, NEW endpoint,
           Goto(r, l) \/ StartRequest(r, endpoint, l),
           UNCHANGED <<stores, env, purged>>
    PROVE  TrashTypeOK'
  <1>1. ReqOK'  BY GotoTyped
  <1>2. DiskOK' /\ ImagesOK' /\ ItemsOK'
    BY DEF TrashTypeOK, EnvOK, DiskOK, ImagesOK, ItemsOK, stores
  <1>3. EnvOK'  BY DEF TrashTypeOK, EnvOK, env
  <1> QED  BY <1>1, <1>2, <1>3 DEF TrashTypeOK

LEMMA CreateItemTyped ==
    ASSUME TrashTypeOK, NEW item \in TrashItem, CreateItem(item)
    PROVE  ItemsOK'
  <1>1. items \in [DOMAIN items -> TrashItem] /\ DOMAIN items \subseteq Nat /\ nextId \in Nat
    BY DEF TrashTypeOK, EnvOK, ItemsOK
  <1>2. CASE UNCHANGED <<items, nextId>>  BY <1>1, <1>2 DEF ItemsOK
  <1>3. CASE items' = With(items, nextId, item) /\ nextId' = nextId + 1
    <2>1. /\ With(items, nextId, item) \in [DOMAIN With(items, nextId, item) -> TrashItem]
          /\ DOMAIN With(items, nextId, item) = DOMAIN items \cup {nextId}
      BY <1>1 DEF With
    <2> QED  BY <1>1, <1>3, <2>1 DEF ItemsOK
  <1> QED  BY <1>2, <1>3 DEF CreateItem

LEMMA MoveTyped ==
    ASSUME TrashTypeOK, NEW src \in Path, NEW dst \in Path,
           Moves(src, dst) \/ CopiesOnly(src, dst) \/ MoveFails(src, dst)
    PROVE  DiskOK' /\ faults' \in Nat
  <1>1. /\ disk \in [DOMAIN disk -> Contents] /\ DOMAIN disk \subseteq Path
        /\ faults \in Nat
    BY DEF TrashTypeOK, EnvOK, DiskOK
  <1>2. DiskOK'
    <2>1. CASE src \in DOMAIN disk /\ disk' = Renamed(disk, src, dst)
      BY <1>1, <2>1 DEF Renamed, With, Lacking, DiskOK
    <2>2. CASE src \in DOMAIN disk /\ disk' = With(disk, dst, disk[src])
      BY <1>1, <2>2 DEF With, DiskOK
    <2>3. CASE UNCHANGED disk  BY <1>1, <2>3 DEF DiskOK
    <2>4. CASE disk' = Lacking(disk, {dst})  BY <1>1, <2>4 DEF Lacking, DiskOK
    <2> QED  BY <2>1, <2>2, <2>3, <2>4 DEF Moves, CopiesOnly, MoveFails
  <1>3. faults' \in Nat  BY <1>1 DEF Moves, CopiesOnly, MoveFails, Refusal
  <1> QED  BY <1>2, <1>3

LEMMA DeleteStepTyped ==
    ASSUME TrashTypeOK, NEW r \in Requests, DeleteStep(r)
    PROVE  TrashTypeOK'
  <1> DEFINE l == req[r]
  <1>0. l \in Local  BY DEF TrashTypeOK, EnvOK, ReqOK
  <1>1. CASE DeleteFiles(r)
    <2>1. PICK S \in SUBSET DOMAIN images, dir \in {trashDir, NoDir} :
            StartRequest(r, "delete", NextFile(S, dir))
      BY <1>1 DEF DeleteFiles
    <2>2. NextFile(S, dir) \in Local
      BY DEF TrashTypeOK, EnvOK, ImagesOK, NextFile, Local, Deleting
    <2> QED  BY <1>1, <2>1, <2>2, ReadStepTyped DEF DeleteFiles
  <1>2. CASE BatchDelete(r)
    <2>1. PICK g \in DuplicateGroups : \E keep \in FolderPattern(g), dir \in {trashDir, NoDir} :
            StartRequest(r, "batch", NextFile(Doomed(g, keep), dir))
      BY <1>2 DEF BatchDelete
    <2>2. PICK keep \in FolderPattern(g), dir \in {trashDir, NoDir} :
            StartRequest(r, "batch", NextFile(Doomed(g, keep), dir))
      BY <2>1
    <2>3. Doomed(g, keep) \subseteq Path
      BY DEF TrashTypeOK, EnvOK, ImagesOK, Doomed, DuplicateGroups
    <2>4. NextFile(Doomed(g, keep), dir) \in Local
      BY <2>3 DEF TrashTypeOK, EnvOK, NextFile, Local, Deleting
    <2> QED  BY <1>2, <2>2, <2>4, ReadStepTyped DEF BatchDelete
  <1>3. CASE DeleteDone(r)
    BY <1>3, ReadStepTyped DEF DeleteDone, Finish, Local
  <1>4. ASSUME l.at = "next", NEW p \in l.todo, RemoveForGood(r, p)
        PROVE  TrashTypeOK'
    <2>1. l \in [at : {"next"}, todo : SUBSET Path, dir : TrashDirs \cup {NoDir}]
      BY <1>0, <1>4, LocalShape
    <2>2. [at |-> "unlist", todo |-> l.todo, dir |-> NoDir, src |-> p] \in Local
      BY <1>4, <2>1 DEF Local, Deleting
    <2>3. NextFile(l.todo \ {p}, NoDir) \in Local
      BY <2>1 DEF NextFile, Local, Deleting
    <2>4. ReqOK'
      BY <1>4, <2>2, <2>3, GotoTyped DEF RemoveForGood
    <2>5. DiskOK' /\ purged' \subseteq Contents
      <3>1. disk \in [DOMAIN disk -> Contents] /\ DOMAIN disk \subseteq Path
        BY DEF TrashTypeOK, EnvOK, DiskOK
      <3>2. CASE p \in DOMAIN disk
        BY <1>4, <3>1, <3>2 DEF TrashTypeOK, EnvOK, RemoveForGood, Lacking, DiskOK
      <3>3. CASE p \notin DOMAIN disk
        BY <1>4, <3>1, <3>3 DEF TrashTypeOK, EnvOK, RemoveForGood, DiskOK
      <3> QED  BY <3>2, <3>3
    <2>6. ImagesOK' /\ ItemsOK'
      BY <1>4 DEF TrashTypeOK, EnvOK, RemoveForGood, ImagesOK, ItemsOK
    <2>7. faults' \in Nat /\ UNCHANGED <<trashDir, clock, crashes>>
      BY <1>4 DEF TrashTypeOK, EnvOK, RemoveForGood, Refusal
    <2> QED  BY <2>4, <2>5, <2>6, <2>7 DEF TrashTypeOK, EnvOK
  <1>5. ASSUME l.at = "next", NEW p \in l.todo, LookUp(r, p)
        PROVE  TrashTypeOK'
    <2>1. l \in [at : {"next"}, todo : SUBSET Path, dir : TrashDirs \cup {NoDir}]
      BY <1>0, <1>5, LocalShape
    <2>2. Hash(p) \in MaybeHash
      BY DEF TrashTypeOK, EnvOK, ImagesOK, Hash, MaybeHash
    <2>3. [at |-> "choose", todo |-> l.todo, dir |-> l.dir, src |-> p, hash |-> Hash(p)] \in Local
      BY <1>5, <2>1, <2>2 DEF LookUp, Local, Deleting
    <2> QED  BY <1>5, <2>3, ReadStepTyped DEF LookUp
  <1>6. CASE ChooseTrashPath(r)
    <2>1. l \in [at : {"choose"}, todo : SUBSET Path, dir : TrashDirs, src : Path,
                 hash : MaybeHash]
      BY <1>0, <1>6, LocalShape DEF ChooseTrashPath
    <2>2. TrashPath(l.dir, l.src) \in Path
      BY <2>1, TagTyped DEF TrashTypeOK, EnvOK, TrashPath, TagKinds
    <2>3. [at |-> "move", todo |-> l.todo, dir |-> l.dir, src |-> l.src, hash |-> l.hash,
           dst |-> TrashPath(l.dir, l.src)] \in Local
      BY <2>1, <2>2 DEF Local, Deleting
    <2> QED  BY <1>6, <2>3, ReadStepTyped DEF ChooseTrashPath
  <1>7. CASE MoveToTrash(r)
    <2>1. l \in [at : {"move", "record"}, todo : SUBSET Path, dir : TrashDirs, src : Path,
                 hash : MaybeHash, dst : Path]
      BY <1>0, <1>7, LocalShape DEF MoveToTrash
    <2>2. [l EXCEPT !.at = "record"] \in Local
      BY <2>1 DEF Local, Deleting
    <2>3. NextFile(l.todo \ {l.src}, l.dir) \in Local
      BY <2>1 DEF NextFile, Local, Deleting
    <2>4. ReqOK'
      BY <1>7, <2>2, <2>3, GotoTyped DEF MoveToTrash
    <2>5. DiskOK' /\ faults' \in Nat
      BY <1>7, <2>1, MoveTyped DEF MoveToTrash
    <2>6. ImagesOK' /\ ItemsOK'
      BY <1>7 DEF TrashTypeOK, EnvOK, MoveToTrash, ImagesOK, ItemsOK
    <2> QED  BY <1>7, <2>4, <2>5, <2>6 DEF TrashTypeOK, EnvOK, MoveToTrash
  <1>8. CASE RecordTrashItem(r)
    <2>1. l \in [at : {"move", "record"}, todo : SUBSET Path, dir : TrashDirs, src : Path,
                 hash : MaybeHash, dst : Path]
      BY <1>0, <1>8, LocalShape DEF RecordTrashItem
    <2>2. [trash |-> l.dst, original |-> l.src, hash |-> l.hash] \in TrashItem
      BY <2>1 DEF TrashItem, MaybeHash
    <2>3. ItemsOK'
      BY <1>8, <2>2, CreateItemTyped DEF RecordTrashItem
    <2>4. [at |-> "unlist", todo |-> l.todo, dir |-> l.dir, src |-> l.src] \in Local
      BY <2>1 DEF Local, Deleting
    <2>5. ReqOK'
      BY <1>8, <2>4, GotoTyped DEF RecordTrashItem
    <2>6. DiskOK' /\ ImagesOK'
      BY <1>8 DEF TrashTypeOK, EnvOK, RecordTrashItem, DiskOK, ImagesOK
    <2> QED  BY <1>8, <2>3, <2>5, <2>6 DEF TrashTypeOK, EnvOK, RecordTrashItem, env
  <1>9. CASE DeleteFromDB(r)
    <2>1. l \in [at : {"unlist"}, todo : SUBSET Path, dir : TrashDirs \cup {NoDir}, src : Path]
      BY <1>0, <1>9, LocalShape DEF DeleteFromDB
    <2>2. NextFile(l.todo \ {l.src}, l.dir) \in Local
      BY <2>1 DEF NextFile, Local, Deleting
    <2>3. ReqOK'
      BY <1>9, <2>2, GotoTyped DEF DeleteFromDB
    <2>4. ImagesOK'
      BY <1>9 DEF TrashTypeOK, EnvOK, DeleteFromDB, Lacking, ImagesOK
    <2>5. DiskOK' /\ ItemsOK'
      BY <1>9 DEF TrashTypeOK, EnvOK, DeleteFromDB, DiskOK, ItemsOK
    <2> QED  BY <1>9, <2>3, <2>4, <2>5 DEF TrashTypeOK, EnvOK, DeleteFromDB, env
  <1> QED
    BY <1>1, <1>2, <1>3, <1>4, <1>5, <1>6, <1>7, <1>8, <1>9 DEF DeleteStep

LEMMA ListStepTyped ==
    ASSUME TrashTypeOK, NEW r \in Requests, ListStep(r)
    PROVE  TrashTypeOK'
  <1> DEFINE l == req[r]
  <1>0. l \in Local  BY DEF TrashTypeOK, ReqOK
  <1>1. CASE ReadTrashDir(r)
    <2>1. [at |-> "rows", onDisk |-> FilesIn(trashDir)] \in Local
      BY DEF TrashTypeOK, DiskOK, FilesIn, Local, Listing
    <2> QED  BY <1>1, <2>1, ReadStepTyped DEF ReadTrashDir
  <1>2. CASE ReadTrashRows(r)
    <2>1. l \in [at : {"rows"}, onDisk : SUBSET Path]
      BY <1>0, <1>2, LocalShape DEF ReadTrashRows
    <2>2. [at |-> "reconcile", backfill |-> l.onDisk, prune |-> StaleRows(l.onDisk)] \in Local
      BY <2>1 DEF TrashTypeOK, ItemsOK, StaleRows, Local, Listing
    <2> QED  BY <1>2, <2>2, ReadStepTyped DEF ReadTrashRows
  <1>3. ASSUME l.at = "reconcile", NEW p \in l.backfill, Backfill(r, p)
        PROVE  TrashTypeOK'
    <2>1. l \in [at : {"reconcile"}, backfill : SUBSET Path, prune : SUBSET Nat]
      BY <1>0, <1>3, LocalShape
    <2>2. [l EXCEPT !.backfill = @ \ {p}] \in Local
      BY <2>1 DEF Local, Listing
    <2>3. [trash |-> p, original |-> NoPath, hash |-> NoHash] \in TrashItem
      BY <1>3, <2>1 DEF TrashItem
    <2>4. ItemsOK' /\ ReqOK'
      BY <1>3, <2>2, <2>3, CreateItemTyped, GotoTyped DEF Backfill
    <2> QED  BY <1>3, <2>4 DEF Backfill, TrashTypeOK, DiskOK, ImagesOK, EnvOK, env
  <1>4. ASSUME l.at = "reconcile", NEW i \in l.prune, Prune(r, i)
        PROVE  TrashTypeOK'
    <2>1. l \in [at : {"reconcile"}, backfill : SUBSET Path, prune : SUBSET Nat]
      BY <1>0, <1>4, LocalShape
    <2>2. [l EXCEPT !.prune = @ \ {i}] \in Local
      BY <2>1 DEF Local, Listing
    <2>3. ReqOK'  BY <1>4, <2>2, GotoTyped DEF Prune
    <2>4. ItemsOK'  BY <1>4 DEF Prune, TrashTypeOK, ItemsOK, Lacking
    <2> QED  BY <1>4, <2>3, <2>4 DEF Prune, TrashTypeOK, DiskOK, ImagesOK, EnvOK, env
  <1>5. CASE Reconciled(r)
    BY <1>5, ReadStepTyped DEF Reconciled, Finish, Local
  <1> QED  BY <1>1, <1>2, <1>3, <1>4, <1>5 DEF ListStep

LEMMA RestoreStepTyped ==
    ASSUME TrashTypeOK, NEW r \in Requests, RestoreStep(r)
    PROVE  TrashTypeOK'
  <1> DEFINE l == req[r]
  <1>0. l \in Local  BY DEF TrashTypeOK, ReqOK
  <1>1. ASSUME NEW i \in DOMAIN items, LoadForRestore(r, i)
        PROVE  TrashTypeOK'
    <2>1. items[i] \in [trash : Path, original : Path, hash : MaybeHash]
      BY <1>1 DEF LoadForRestore, TrashTypeOK, ItemsOK, TrashItem, MaybeHash
    <2>2. [at |-> "target", id |-> i, item |-> items[i]] \in Local
      BY <2>1 DEF TrashTypeOK, ItemsOK, Local, Restoring
    <2> QED  BY <1>1, <2>2, ReadStepTyped DEF LoadForRestore
  <1>2. CASE ChooseTarget(r)
    <2>1. l \in [at : {"target"}, id : Nat,
                 item : [trash : Path, original : Path, hash : MaybeHash]]
      BY <1>0, <1>2, LocalShape DEF ChooseTarget
    <2> DEFINE dst == IF l.item.original \in DOMAIN disk
                      THEN InTagged(Cwd, l.item.trash, "restored", clock)
                      ELSE l.item.original
               next == [at |-> "restore", id |-> l.id, src |-> l.item.trash,
                        dst |-> dst, hash |-> l.item.hash]
    <2>2. clock \in Nat /\ "restored" \in TagKinds  BY DEF TrashTypeOK, EnvOK, TagKinds
    <2>3. InTagged(Cwd, l.item.trash, "restored", clock) \in Path
      BY <2>1, <2>2, TagTyped
    <2>4. dst \in Path  BY <2>1, <2>3
    <2>5. next \in Local  BY <2>1, <2>4 DEF Local, Restoring
    <2>6. CASE l.item.trash \in DOMAIN disk
      BY <1>2, <2>5, <2>6, ReadStepTyped DEF ChooseTarget
    <2>7. CASE l.item.trash \notin DOMAIN disk
      BY <1>2, <2>7, ReadStepTyped DEF ChooseTarget, Finish, Local
    <2> QED  BY <2>6, <2>7
  <1>3. CASE RestoreMove(r)
    <2>1. l \in [at : {"restore", "relist"}, id : Nat, src : Path, dst : Path, hash : MaybeHash]
      BY <1>0, <1>3, LocalShape DEF RestoreMove
    <2>2. [l EXCEPT !.at = "relist"] \in Local
      BY <2>1 DEF Local, Restoring
    <2>3. ReqOK'
      BY <1>3, <2>2, GotoTyped DEF RestoreMove, Finish, Local
    <2>4. DiskOK' /\ faults' \in Nat
      BY <1>3, <2>1, MoveTyped DEF RestoreMove
    <2> QED  BY <1>3, <2>3, <2>4 DEF RestoreMove, TrashTypeOK, ImagesOK, ItemsOK, EnvOK
  <1>4. CASE Relist(r)
    <2>1. l \in [at : {"restore", "relist"}, id : Nat, src : Path, dst : Path, hash : MaybeHash]
      BY <1>0, <1>4, LocalShape DEF Relist
    <2>2. [at |-> "dropitem", id |-> l.id] \in Local
      BY <2>1 DEF Local, Purging
    <2>3. ReqOK'  BY <1>4, <2>2, GotoTyped DEF Relist
    <2> DEFINE hash == IF l.hash = NoHash /\ l.dst \in DOMAIN disk THEN disk[l.dst] ELSE l.hash
    <2>4. hash \in MaybeHash  BY <2>1 DEF TrashTypeOK, DiskOK, MaybeHash
    <2>5. images' = images \/ images' = With(images, l.dst, hash)
      BY <1>4 DEF Relist
    <2> HIDE DEF hash
    <2>6. ImagesOK'  BY <2>1, <2>4, <2>5 DEF With, TrashTypeOK, ImagesOK
    <2> QED  BY <1>4, <2>3, <2>6 DEF Relist, TrashTypeOK, DiskOK, ItemsOK, EnvOK, env
  <1>5. CASE DropItem(r)
    <2>1. ReqOK'  BY <1>5, GotoTyped DEF DropItem, Finish, Local
    <2>2. ItemsOK'  BY <1>5 DEF DropItem, Lacking, TrashTypeOK, ItemsOK
    <2> QED  BY <1>5, <2>1, <2>2 DEF DropItem, TrashTypeOK, DiskOK, ImagesOK, EnvOK, env
  <1> QED  BY <1>1, <1>2, <1>3, <1>4, <1>5 DEF RestoreStep

LEMMA PurgeStepTyped ==
    ASSUME TrashTypeOK, NEW r \in Requests, PurgeStep(r)
    PROVE  TrashTypeOK'
  <1> DEFINE l == req[r]
  <1>0. l \in Local  BY DEF TrashTypeOK, ReqOK
  <1>1. ASSUME NEW i \in DOMAIN items, LoadForDelete(r, i)
        PROVE  TrashTypeOK'
    <2>1. [at |-> "purge", id |-> i, src |-> items[i].trash] \in Local
      BY DEF TrashTypeOK, ItemsOK, TrashItem, Local, Purging
    <2> QED  BY <1>1, <2>1, ReadStepTyped DEF LoadForDelete
  <1>2. CASE Purge(r)
    <2>1. l \in [at : {"purge"}, id : Nat, src : Path]
      BY <1>0, <1>2, LocalShape DEF Purge
    <2>2. [at |-> "dropitem", id |-> l.id] \in Local
      BY <2>1 DEF Local, Purging
    <2>3. ReqOK'  BY <1>2, <2>2, GotoTyped DEF Purge, Finish, Local
    <2>4. DiskOK' /\ purged' \subseteq Contents /\ faults' \in Nat
      BY <1>2 DEF Purge, Refusal, Lacking, TrashTypeOK, DiskOK, EnvOK
    <2> QED  BY <1>2, <2>3, <2>4 DEF Purge, TrashTypeOK, ImagesOK, ItemsOK, EnvOK
  <1>3. CASE ReadForClean(r)
    <2>1. [at |-> "clean", todo |-> FilesIn(trashDir)] \in Local
      BY DEF TrashTypeOK, DiskOK, FilesIn, Local, Purging
    <2> QED  BY <1>3, <2>1, ReadStepTyped DEF ReadForClean
  <1>4. CASE CleanRows(r)
    <2>1. ReqOK'  BY <1>4, GotoTyped DEF CleanRows, Finish, Local
    <2>2. ItemsOK'  BY <1>4 DEF CleanRows, TrashTypeOK, ItemsOK
    <2> QED  BY <1>4, <2>1, <2>2 DEF CleanRows, TrashTypeOK, DiskOK, ImagesOK, EnvOK, env
  <1>5. ASSUME l.at = "clean", NEW p \in l.todo, CleanFile(r, p)
        PROVE  TrashTypeOK'
    <2>1. l \in [at : {"clean"}, todo : SUBSET Path]
      BY <1>0, <1>5, LocalShape
    <2>2. [l EXCEPT !.todo = @ \ {p}] \in Local
      BY <2>1 DEF Local, Purging
    <2>3. ReqOK'  BY <1>5, <2>2, GotoTyped DEF CleanFile
    <2>4. DiskOK' /\ purged' \subseteq Contents /\ faults' \in Nat
      BY <1>5 DEF CleanFile, Refusal, Lacking, TrashTypeOK, DiskOK, EnvOK
    <2> QED  BY <1>5, <2>3, <2>4 DEF CleanFile, TrashTypeOK, ImagesOK, ItemsOK, EnvOK
  <1> QED  BY <1>1, <1>2, <1>3, <1>4, <1>5 DEF PurgeStep

LEMMA MoveStepTyped ==
    ASSUME TrashTypeOK, NEW r \in Requests, MoveStep(r)
    PROVE  TrashTypeOK'
  <1> DEFINE l == req[r]
  <1>0. l \in Local  BY DEF TrashTypeOK, ReqOK
  <1>1. ASSUME NEW p \in DOMAIN images, NEW dir \in Folders, ChooseDestination(r, p, dir)
        PROVE  TrashTypeOK'
    <2>1. p \in Path  BY DEF TrashTypeOK, ImagesOK
    <2>2. [at |-> "destination", src |-> p, dir |-> dir, n |-> 0] \in Local
      BY <2>1 DEF Local, Carrying
    <2> QED  BY <1>1, <2>2, ReadStepTyped DEF ChooseDestination
  <1>4. CASE TryDestination(r)
    <2>1. req \in [Requests -> Local]  BY DEF TrashTypeOK, ReqOK
    <2> QED  BY <1>4, <2>1, TryTyped, ReadStepTyped
  <1>2. CASE Carry(r)
    <2>1. l \in [at : {"carry", "repath"}, src : Path, dst : Path]
      BY <1>0, <1>2, LocalShape DEF Carry
    <2>2. [l EXCEPT !.at = "repath"] \in Local
      BY <2>1 DEF Local, Carrying
    <2>3. ReqOK'  BY <1>2, <2>2, GotoTyped DEF Carry, Finish, Local
    <2>4. DiskOK' /\ faults' \in Nat
      BY <1>2, <2>1, MoveTyped DEF Carry
    <2> QED  BY <1>2, <2>3, <2>4 DEF Carry, TrashTypeOK, ImagesOK, ItemsOK, EnvOK
  <1>3. CASE UpdatePath(r)
    <2>1. l \in [at : {"carry", "repath"}, src : Path, dst : Path]
      BY <1>0, <1>3, LocalShape DEF UpdatePath
    <2>2. ReqOK'  BY <1>3, GotoTyped DEF UpdatePath, Finish, Local
    <2>3. ImagesOK'
      BY <1>3, <2>1 DEF UpdatePath, Renamed, With, Lacking, TrashTypeOK, ImagesOK
    <2> QED  BY <1>3, <2>2, <2>3 DEF UpdatePath, TrashTypeOK, DiskOK, ItemsOK, EnvOK, env
  <1> QED  BY <1>1, <1>2, <1>3, <1>4 DEF MoveStep

LEMMA EnvironmentTyped ==
    ASSUME TrashTypeOK, Environment
    PROVE  TrashTypeOK'
  <1>1. CASE Tick
    BY <1>1 DEF Tick, TrashTypeOK, DiskOK, ImagesOK, ItemsOK, ReqOK, EnvOK, stores
  <1>2. CASE Crash
    BY <1>2 DEF Crash, TrashTypeOK, DiskOK, ImagesOK, ItemsOK, ReqOK, EnvOK, stores, Local
  <1>3. ASSUME NEW dir \in TrashDirs \cup {NoDir}, SetTrashDir(dir)
        PROVE  TrashTypeOK'
    BY <1>3 DEF SetTrashDir, TrashTypeOK, DiskOK, ImagesOK, ItemsOK, ReqOK, EnvOK, stores
  <1> QED  BY <1>1, <1>2, <1>3 DEF Environment

LEMMA TypeKept == TrashTypeOK /\ [TrashNext]_trashVars => TrashTypeOK'
  <1> SUFFICES ASSUME TrashTypeOK, [TrashNext]_trashVars PROVE TrashTypeOK'  OBVIOUS
  <1>1. CASE UNCHANGED trashVars
    BY <1>1 DEF trashVars, TrashTypeOK, DiskOK, ImagesOK, ItemsOK, ReqOK, EnvOK
  <1>2. ASSUME NEW r \in Requests,
               DeleteStep(r) \/ ListStep(r) \/ RestoreStep(r) \/ PurgeStep(r) \/ MoveStep(r)
        PROVE  TrashTypeOK'
    BY <1>2, DeleteStepTyped, ListStepTyped, RestoreStepTyped, PurgeStepTyped, MoveStepTyped
  <1> QED  BY <1>1, <1>2, EnvironmentTyped DEF TrashNext

\* TrashTypeOK holds in every state of every instance.
THEOREM TypeCorrect == Spec => []TrashTypeOK
BY InitTyped, TypeKept, PTL DEF Spec

-------------------------------------------------------------------------------
(* No photo is overwritten when base names tell photos apart.              *)

\* Every photo of the initial gallery has a name of its own: Home is the stem
\* of each content, and no two contents share one.
NamesTellApart(Home) ==
    /\ \A c, d \in Contents : Home[c] = Home[d] => c = d
    /\ \A g \in InitialDisks :
         /\ \A p \in DOMAIN g : p.name.stem = Home[g[p]]
         /\ \A c \in Contents : \E p \in DOMAIN g : g[p] = c

\* Wherever a file is, and wherever a goroutine is about to put one, its base
\* name still has the stem of the photo it holds.
DiskStems(Home) == \A p \in DOMAIN disk : p.name.stem = Home[disk[p]]
ItemStems == \A i \in DOMAIN items :
                items[i].original # NoPath => SameStem(items[i].original, items[i].trash)
ReqStems == \A r \in Requests :
    /\ req[r].at \in {"move", "record", "restore", "carry"} => SameStem(req[r].src, req[r].dst)
    /\ req[r].at = "target" => SameStem(req[r].item.original, req[r].item.trash)

StemsKept(Home) == DiskStems(Home) /\ ItemStems /\ ReqStems /\ NoContentLost

LEMMA MoveKeepsContents ==
    ASSUME NEW Home, NamesTellApart(Home), DiskOK, DiskStems(Home), NoContentLost,
           NEW src \in Path, NEW dst \in Path, SameStem(src, dst),
           Moves(src, dst) \/ CopiesOnly(src, dst) \/ MoveFails(src, dst),
           UNCHANGED purged
    PROVE  DiskStems(Home)' /\ NoContentLost'
  <1>0. disk \in [DOMAIN disk -> Contents]  BY DEF DiskOK
  <1>1. CASE UNCHANGED disk  BY <1>1 DEF DiskStems, NoContentLost
  <1> SUFFICES ASSUME src \in DOMAIN disk,
                      \/ disk' = Renamed(disk, src, dst)
                      \/ disk' = With(disk, dst, disk[src])
                      \/ src # dst /\ disk' = Lacking(disk, {dst})
               PROVE  DiskStems(Home)' /\ NoContentLost'
    BY <1>1 DEF Moves, CopiesOnly, MoveFails
  \* a file already at dst holds what src holds
  <1>2. dst \in DOMAIN disk => disk[dst] = disk[src]
    BY <1>0 DEF DiskStems, SameStem, NamesTellApart
  <1>3. \A p \in DOMAIN disk' : p = dst \/ (p \in DOMAIN disk /\ disk'[p] = disk[p])
    BY DEF Renamed, With, Lacking
  <1>4. dst \in DOMAIN disk' => disk'[dst] = disk[src]
    BY DEF Renamed, With, Lacking
  <1>5. DiskStems(Home)'
    BY <1>3, <1>4 DEF DiskStems, SameStem
  <1>6. \A p \in DOMAIN disk : \E q \in DOMAIN disk' : disk'[q] = disk[p]
    <2> TAKE p \in DOMAIN disk
    <2>1. CASE p # src /\ p # dst
      BY <2>1 DEF Renamed, With, Lacking
    <2>2. CASE p = src \/ p = dst
      <3>1. disk[p] = disk[src]  BY <1>2, <2>2
      <3>2. \/ dst \in DOMAIN disk' /\ disk'[dst] = disk[src]
            \/ src \in DOMAIN disk' /\ disk'[src] = disk[src]
        BY DEF Renamed, With, Lacking
      <3> QED  BY <3>1, <3>2
    <2> QED  BY <2>1, <2>2
  <1> QED  BY <1>5, <1>6 DEF NoContentLost

LEMMA InitStems ==
    ASSUME NEW Home, NamesTellApart(Home), TrashInit
    PROVE  StemsKept(Home)
  <1>1. DiskStems(Home) /\ NoContentLost
    BY DEF TrashInit, NamesTellApart, DiskStems, NoContentLost
  <1>2. ItemStems  BY DEF TrashInit, ItemStems
  <1>3. ReqStems  BY DEF TrashInit, ReqStems, Idle
  <1> QED  BY <1>1, <1>2, <1>3 DEF StemsKept

LEMMA GotoStems ==
    ASSUME TrashTypeOK, ReqStems, NEW r \in Requests, NEW l, NEW endpoint,
           l.at \in {"move", "record", "restore", "carry"} => SameStem(l.src, l.dst),
           l.at = "target" => SameStem(l.item.original, l.item.trash),
           Goto(r, l) \/ StartRequest(r, endpoint, l)
    PROVE  ReqStems'
  <1>1. req' = [req EXCEPT ![r] = l] /\ req \in [Requests -> Local]
    BY DEF Goto, StartRequest, TrashTypeOK, ReqOK
  <1>2. \A s \in Requests : req'[s] = IF s = r THEN l ELSE req[s]
    BY <1>1
  <1> QED  BY <1>2 DEF ReqStems, SameStem

LEMMA ReadStems ==
    ASSUME NEW Home, TrashTypeOK, StemsKept(Home), NEW r \in Requests, NEW l, NEW endpoint,
           l.at \in {"move", "record", "restore", "carry"} => SameStem(l.src, l.dst),
           l.at = "target" => SameStem(l.item.original, l.item.trash),
           Goto(r, l) \/ StartRequest(r, endpoint, l),
           UNCHANGED <<disk, items, purged>>
    PROVE  StemsKept(Home)'
  <1>1. ReqStems'  BY GotoStems DEF StemsKept
  <1> QED  BY <1>1 DEF StemsKept, DiskStems, ItemStems, NoContentLost, SameStem

\* Dropping a row and creating one from the paths of a move keep ItemStems
LEMMA CreateStems ==
    ASSUME TrashTypeOK, ItemStems, NEW item, CreateItem(item),
           item.original # NoPath => SameStem(item.original, item.trash)
    PROVE  ItemStems'
  <1>1. items \in [DOMAIN items -> TrashItem]  BY DEF TrashTypeOK, ItemsOK
  <1>2. CASE UNCHANGED items  BY <1>2 DEF ItemStems, SameStem
  <1>3. CASE items' = With(items, nextId, item)
    <2>1. \A i \in DOMAIN items' : \/ items'[i] = item
                                   \/ i \in DOMAIN items /\ items'[i] = items[i]
      BY <1>3 DEF With
    <2> QED  BY <2>1 DEF ItemStems, SameStem
  <1> QED  BY <1>2, <1>3 DEF CreateItem

LEMMA DropStems ==
    ASSUME TrashTypeOK, ItemStems, NEW S, items' = Lacking(items, S)
    PROVE  ItemStems'
BY DEF TrashTypeOK, ItemsOK, Lacking, ItemStems, SameStem

LEMMA PurgeStems ==
    ASSUME NEW Home, TrashTypeOK, DiskStems(Home), NoContentLost, NEW p,
           disk' = Lacking(disk, {p}),
           purged \subseteq purged', p \in DOMAIN disk => disk[p] \in purged'
    PROVE  DiskStems(Home)' /\ NoContentLost'
  <1>1. /\ DOMAIN disk' = DOMAIN disk \ {p}
        /\ \A q \in DOMAIN disk \ {p} : disk'[q] = disk[q]
    BY DEF Lacking
  <1>2. DiskStems(Home)'  BY <1>1 DEF DiskStems
  <1>3. \A c \in Contents : c \in purged' \/ \E q \in DOMAIN disk' : disk'[q] = c
    <2> TAKE c \in Contents
    <2>1. CASE c \in purged  BY <2>1
    <2>2. ASSUME NEW q \in DOMAIN disk, disk[q] = c
          PROVE  c \in purged' \/ \E s \in DOMAIN disk' : disk'[s] = c
      BY <1>1, <2>2
    <2> QED  BY <2>1, <2>2 DEF NoContentLost
  <1> QED  BY <1>2, <1>3 DEF NoContentLost

LEMMA StemStep ==
    ASSUME NEW Home, NamesTellApart(Home), TrashTypeOK, StemsKept(Home), NEW r \in Requests,
           DeleteStep(r) \/ ListStep(r) \/ RestoreStep(r) \/ PurgeStep(r) \/ MoveStep(r)
    PROVE  StemsKept(Home)'
  <1> DEFINE l == req[r]
  <1>0. l \in Local  BY DEF TrashTypeOK, ReqOK
  <1> USE DEF StemsKept
  <1>1. CASE DeleteFiles(r)
    BY <1>1, ReadStems DEF DeleteFiles, NextFile, stores
  <1>2. CASE BatchDelete(r)
    BY <1>2, ReadStems DEF BatchDelete, NextFile, stores
  <1>3. CASE DeleteDone(r)
    BY <1>3, ReadStems DEF DeleteDone, Finish, Idle, stores
  <1>4. ASSUME l.at = "next", NEW p \in l.todo, RemoveForGood(r, p)
        PROVE  StemsKept(Home)'
    <2>1. CASE disk' = Lacking(disk, {p}) /\ purged' = purged \cup {disk[p]}
      <3>1. ReqStems'  BY <1>4, GotoStems DEF RemoveForGood, NextFile
      <3>2. DiskStems(Home)' /\ NoContentLost'
        BY <1>4, <2>1, PurgeStems DEF RemoveForGood
      <3> QED  BY <1>4, <3>1, <3>2 DEF RemoveForGood, ItemStems, SameStem
    <2>2. CASE Goto(r, NextFile(l.todo \ {p}, NoDir)) /\ UNCHANGED <<disk, purged>>
      BY <1>4, <2>2, ReadStems DEF RemoveForGood, NextFile
    <2> QED  BY <1>4, <2>1, <2>2 DEF RemoveForGood
  <1>5. ASSUME l.at = "next", NEW p \in l.todo, LookUp(r, p)
        PROVE  StemsKept(Home)'
    BY <1>5, ReadStems DEF LookUp, stores
  <1>6. CASE ChooseTrashPath(r)
    <2>1. l \in [at : {"choose"}, todo : SUBSET Path, dir : TrashDirs, src : Path,
                 hash : MaybeHash]
      BY <1>0, <1>6, LocalShape DEF ChooseTrashPath
    <2>2. SameStem(l.src, TrashPath(l.dir, l.src))
      <3>1. clock \in Nat /\ "stamp" \in TagKinds  BY DEF TrashTypeOK, EnvOK, TagKinds
      <3>2. /\ SameStem(l.src, In(l.dir, l.src))
            /\ SameStem(l.src, InTagged(l.dir, l.src, "stamp", clock))
        BY <2>1, <3>1, TagTyped DEF SameStem
      <3> QED  BY <3>2 DEF TrashPath
    <2> QED  BY <1>6, <2>2, ReadStems DEF ChooseTrashPath, stores
  <1>7. CASE MoveToTrash(r)
    <2>1. l \in [at : {"move", "record"}, todo : SUBSET Path, dir : TrashDirs, src : Path,
                 hash : MaybeHash, dst : Path]
      BY <1>0, <1>7, LocalShape DEF MoveToTrash
    <2>2. SameStem(l.src, l.dst)  BY <1>7 DEF MoveToTrash, ReqStems
    <2>3. DiskStems(Home)' /\ NoContentLost'
      BY <1>7, <2>1, <2>2, MoveKeepsContents DEF MoveToTrash, TrashTypeOK
    <2>4. [l EXCEPT !.at = "record"].src = l.src /\ [l EXCEPT !.at = "record"].dst = l.dst
          /\ [l EXCEPT !.at = "record"].at = "record"
      BY <2>1
    <2>5. NextFile(l.todo \ {l.src}, l.dir).at = "next"  BY DEF NextFile
    <2>6. ReqStems'  BY <1>7, <2>2, <2>4, <2>5, GotoStems DEF MoveToTrash
    <2> QED  BY <1>7, <2>3, <2>6 DEF MoveToTrash, ItemStems, SameStem
  <1>8. CASE RecordTrashItem(r)
    <2>1. ReqStems'  BY <1>8, GotoStems DEF RecordTrashItem
    <2>2. SameStem(l.src, l.dst)  BY <1>8 DEF RecordTrashItem, ReqStems
    <2>3. ItemStems'
      BY <1>8, <2>2, CreateStems DEF RecordTrashItem, SameStem
    <2> QED  BY <1>8, <2>1, <2>3 DEF RecordTrashItem, DiskStems, NoContentLost
  <1>9. CASE DeleteFromDB(r)
    BY <1>9, ReadStems DEF DeleteFromDB, NextFile
  <1>10. CASE ListStep(r)
    <2>1. CASE ReadTrashDir(r) \/ ReadTrashRows(r) \/ Reconciled(r)
      BY <2>1, ReadStems DEF ReadTrashDir, ReadTrashRows, Reconciled, Finish, Idle, stores
    <2>2. ASSUME l.at = "reconcile", NEW p \in l.backfill, Backfill(r, p)
          PROVE  StemsKept(Home)'
      <3>1. l \in [at : {"reconcile"}, backfill : SUBSET Path, prune : SUBSET Nat]
        BY <1>0, <2>2, LocalShape
      <3>2. [l EXCEPT !.backfill = @ \ {p}].at = "reconcile"  BY <3>1
      <3>3. ReqStems'  BY <2>2, <3>2, GotoStems DEF Backfill
      <3>4. ItemStems'  BY <2>2, CreateStems DEF Backfill
      <3> QED  BY <2>2, <3>3, <3>4 DEF Backfill, DiskStems, NoContentLost
    <2>3. ASSUME l.at = "reconcile", NEW i \in l.prune, Prune(r, i)
          PROVE  StemsKept(Home)'
      <3>1. l \in [at : {"reconcile"}, backfill : SUBSET Path, prune : SUBSET Nat]
        BY <1>0, <2>3, LocalShape
      <3>2. [l EXCEPT !.prune = @ \ {i}].at = "reconcile"  BY <3>1
      <3>3. ReqStems'  BY <2>3, <3>2, GotoStems DEF Prune
      <3>4. ItemStems'  BY <2>3, DropStems DEF Prune
      <3> QED  BY <2>3, <3>3, <3>4 DEF Prune, DiskStems, NoContentLost
    <2> QED  BY <1>10, <2>1, <2>2, <2>3 DEF ListStep
  <1>11. CASE RestoreStep(r)
    <2>1. ASSUME NEW i \in DOMAIN items, LoadForRestore(r, i)
          PROVE  StemsKept(Home)'
      BY <2>1, ReadStems DEF LoadForRestore, ItemStems, SameStem, stores
    <2>2. CASE ChooseTarget(r)
      <3>1. l \in [at : {"target"}, id : Nat,
                   item : [trash : Path, original : Path, hash : MaybeHash]]
        BY <1>0, <2>2, LocalShape DEF ChooseTarget
      <3> DEFINE dst == IF l.item.original \in DOMAIN disk
                        THEN InTagged(Cwd, l.item.trash, "restored", clock)
                        ELSE l.item.original
                 next == [at |-> "restore", id |-> l.id, src |-> l.item.trash,
                          dst |-> dst, hash |-> l.item.hash]
      <3>2. SameStem(l.item.original, l.item.trash)  BY <2>2 DEF ChooseTarget, ReqStems
      <3>3. clock \in Nat /\ "restored" \in TagKinds  BY DEF TrashTypeOK, EnvOK, TagKinds
      <3>4. SameStem(l.item.trash, InTagged(Cwd, l.item.trash, "restored", clock))
        BY <3>1, <3>3, TagTyped DEF SameStem
      <3>5. SameStem(next.src, next.dst)  BY <3>2, <3>4 DEF SameStem
      <3>6. CASE l.item.trash \in DOMAIN disk
        BY <2>2, <3>5, <3>6, ReadStems DEF ChooseTarget, stores
      <3>7. CASE l.item.trash \notin DOMAIN disk
        BY <2>2, <3>7, ReadStems DEF ChooseTarget, Finish, Idle, stores
      <3> QED  BY <3>6, <3>7
    <2>3. CASE RestoreMove(r)
      <3>1. l \in [at : {"restore", "relist"}, id : Nat, src : Path, dst : Path,
                   hash : MaybeHash]
        BY <1>0, <2>3, LocalShape DEF RestoreMove
      <3>2. SameStem(l.src, l.dst)  BY <2>3 DEF RestoreMove, ReqStems
      <3>3. DiskStems(Home)' /\ NoContentLost'
        BY <2>3, <3>1, <3>2, MoveKeepsContents DEF RestoreMove, TrashTypeOK
      <3>4. [l EXCEPT !.at = "relist"].at = "relist"  BY <3>1
      <3>5. ReqStems'  BY <2>3, <3>4, GotoStems DEF RestoreMove, Finish, Idle
      <3> QED  BY <2>3, <3>3, <3>5 DEF RestoreMove, ItemStems, SameStem
    <2>4. CASE Relist(r)
      BY <2>4, ReadStems DEF Relist
    <2>5. CASE DropItem(r)
      <3>1. ReqStems'  BY <2>5, GotoStems DEF DropItem, Finish, Idle
      <3>2. ItemStems'  BY <2>5, DropStems DEF DropItem
      <3> QED  BY <2>5, <3>1, <3>2 DEF DropItem, DiskStems, NoContentLost
    <2> QED  BY <1>11, <2>1, <2>2, <2>3, <2>4, <2>5 DEF RestoreStep
  <1>12. CASE PurgeStep(r)
    <2>1. ASSUME NEW i \in DOMAIN items, LoadForDelete(r, i)
          PROVE  StemsKept(Home)'
      BY <2>1, ReadStems DEF LoadForDelete, stores
    <2>2. CASE Purge(r)
      <3>1. ReqStems'  BY <2>2, GotoStems DEF Purge, Finish, Idle
      <3>2. CASE UNCHANGED <<disk, purged>>
        BY <2>2, <3>1, <3>2 DEF Purge, DiskStems, ItemStems, SameStem, NoContentLost
      <3>3. CASE disk' = Lacking(disk, {l.src}) /\ purged' = purged \cup {disk[l.src]}
        <4>1. DiskStems(Home)' /\ NoContentLost'  BY <3>3, PurgeStems
        <4> QED  BY <2>2, <3>1, <4>1 DEF Purge, ItemStems, SameStem
      <3> QED  BY <2>2, <3>2, <3>3 DEF Purge
    <2>3. CASE ReadForClean(r)
      BY <2>3, ReadStems DEF ReadForClean, stores
    <2>4. CASE CleanRows(r)
      <3>1. ReqStems'  BY <2>4, GotoStems DEF CleanRows, Finish, Idle
      <3>2. ItemStems'  BY <2>4 DEF CleanRows, ItemStems
      <3> QED  BY <2>4, <3>1, <3>2 DEF CleanRows, DiskStems, NoContentLost
    <2>5. ASSUME l.at = "clean", NEW p \in l.todo, CleanFile(r, p)
          PROVE  StemsKept(Home)'
      <3>0. l \in [at : {"clean"}, todo : SUBSET Path]
        BY <1>0, <2>5, LocalShape
      <3>1. [l EXCEPT !.todo = @ \ {p}].at = "clean"  BY <3>0
      <3>2. ReqStems'  BY <2>5, <3>1, GotoStems DEF CleanFile
      <3>3. CASE UNCHANGED <<disk, purged>>
        BY <2>5, <3>2, <3>3 DEF CleanFile, DiskStems, ItemStems, SameStem, NoContentLost
      <3>4. CASE /\ disk' = Lacking(disk, {p})
                 /\ purged' = purged \cup {disk[q] : q \in {p} \cap DOMAIN disk}
        <4>1. DiskStems(Home)' /\ NoContentLost'  BY <3>4, PurgeStems
        <4> QED  BY <2>5, <3>2, <4>1 DEF CleanFile, ItemStems, SameStem
      <3> QED  BY <2>5, <3>3, <3>4 DEF CleanFile
    <2> QED  BY <1>12, <2>1, <2>2, <2>3, <2>4, <2>5 DEF PurgeStep
  <1>13. CASE MoveStep(r)
    <2>1. ASSUME NEW p \in DOMAIN images, NEW dir \in Folders, ChooseDestination(r, p, dir)
          PROVE  StemsKept(Home)'
      BY <2>1, ReadStems DEF ChooseDestination, stores
    <2>4. CASE TryDestination(r)
      <3>1. PICK m \in Local : /\ Goto(r, m) /\ m.src = l.src
                               /\ \/ m.at = "destination"
                                  \/ m.at = "carry" /\ m.dst.name.stem = m.src.name.stem
        BY <2>4, TryTyped DEF TrashTypeOK, ReqOK
      <3>2. UNCHANGED <<disk, items, purged>>  BY <2>4 DEF TryDestination, stores
      <3> QED  BY <3>1, <3>2, ReadStems DEF SameStem
    <2>2. CASE Carry(r)
      <3>1. l \in [at : {"carry", "repath"}, src : Path, dst : Path]
        BY <1>0, <2>2, LocalShape DEF Carry
      <3>2. SameStem(l.src, l.dst)  BY <2>2 DEF Carry, ReqStems
      <3>3. DiskStems(Home)' /\ NoContentLost'
        BY <2>2, <3>1, <3>2, MoveKeepsContents DEF Carry, TrashTypeOK
      <3>4. [l EXCEPT !.at = "repath"].at = "repath"  BY <3>1
      <3>5. ReqStems'  BY <2>2, <3>4, GotoStems DEF Carry, Finish, Idle
      <3> QED  BY <2>2, <3>3, <3>5 DEF Carry, ItemStems, SameStem
    <2>3. CASE UpdatePath(r)
      BY <2>3, ReadStems DEF UpdatePath, Finish, Idle
    <2> QED  BY <1>13, <2>1, <2>2, <2>3, <2>4 DEF MoveStep
  <1> QED
    BY <1>1, <1>2, <1>3, <1>4, <1>5, <1>6, <1>7, <1>8, <1>9, <1>10, <1>11, <1>12, <1>13
    DEF DeleteStep

LEMMA StemEnvironment ==
    ASSUME NEW Home, TrashTypeOK, StemsKept(Home), Environment \/ UNCHANGED trashVars
    PROVE  StemsKept(Home)'
  <1>1. UNCHANGED <<disk, items, purged>>
    BY DEF Environment, Tick, Crash, SetTrashDir, stores, trashVars
  <1>2. UNCHANGED req \/ req' = [r \in Requests |-> Idle]
    BY DEF Environment, Tick, Crash, SetTrashDir, stores, trashVars
  <1>3. ReqStems'  BY <1>2 DEF StemsKept, ReqStems, SameStem, Idle
  <1> QED  BY <1>1, <1>3 DEF StemsKept, DiskStems, ItemStems, NoContentLost, SameStem

\* However requests interleave, whatever the file system refuses and wherever
\* the service restarts: as long as no two photos share a base name, a photo
\* leaves the disk only when a client deletes it for good.
THEOREM NothingOverwritten ==
    ASSUME NEW CONSTANT Home, NamesTellApart(Home)
    PROVE  Spec => []NoContentLost
  <1>1. TrashInit => StemsKept(Home)  BY InitStems
  <1>2. TrashTypeOK /\ StemsKept(Home) /\ [TrashNext]_trashVars => StemsKept(Home)'
    BY StemStep, StemEnvironment DEF TrashNext
  <1>3. StemsKept(Home) => NoContentLost  BY DEF StemsKept
  <1> QED  BY TypeCorrect, <1>1, <1>2, <1>3, PTL DEF Spec

-------------------------------------------------------------------------------
(* Which side a path is on: the gallery's tables, and what a handler takes *)
(* from them, speak of files outside the trash, trash_items of files in it *)

PlacedLocal(l) ==
    /\ l.at \in {"next", "choose", "move", "record", "unlist"} =>
          \A p \in l.todo : p.dir \notin TrashDirs
    /\ l.at \in {"choose", "move", "record", "unlist"} => l.src.dir \notin TrashDirs
    /\ l.at \in {"move", "record"} => l.dst.dir \in TrashDirs
    /\ l.at = "rows" => \A p \in l.onDisk : p.dir \in TrashDirs
    /\ l.at = "reconcile" => \A p \in l.backfill : p.dir \in TrashDirs
    /\ l.at = "target" => l.item.trash.dir \in TrashDirs /\ l.item.original.dir \notin TrashDirs
    /\ l.at \in {"restore", "relist"} => l.src.dir \in TrashDirs /\ l.dst.dir \notin TrashDirs
    /\ l.at = "purge" => l.src.dir \in TrashDirs
    /\ l.at = "clean" => \A p \in l.todo : p.dir \in TrashDirs
    /\ l.at = "destination" => l.src.dir \notin TrashDirs
    /\ l.at \in {"carry", "repath"} => l.src.dir \notin TrashDirs /\ l.dst.dir \notin TrashDirs

PlacedImages == \A p \in DOMAIN images : p.dir \notin TrashDirs
PlacedItems == \A i \in DOMAIN items :
    /\ items[i].trash.dir \in TrashDirs
    /\ items[i].original # NoPath => items[i].original.dir \notin TrashDirs
PlacedReqs == \A r \in Requests : PlacedLocal(req[r])
Placed == PlacedImages /\ PlacedItems /\ PlacedReqs

LEMMA PlacedGoto ==
    ASSUME TrashTypeOK, PlacedReqs, NEW r \in Requests, NEW l, NEW endpoint, PlacedLocal(l),
           Goto(r, l) \/ StartRequest(r, endpoint, l)
    PROVE  PlacedReqs'
  <1>1. req' = [req EXCEPT ![r] = l] /\ req \in [Requests -> Local]
    BY DEF Goto, StartRequest, TrashTypeOK, ReqOK
  <1>2. \A s \in Requests : req'[s] = IF s = r THEN l ELSE req[s]  BY <1>1
  <1>3. \A s \in Requests : PlacedLocal(req'[s])  BY <1>2 DEF PlacedReqs
  <1> QED  BY <1>3 DEF PlacedReqs

LEMMA PlacedRead ==
    ASSUME TrashTypeOK, Placed, NEW r \in Requests, NEW l, NEW endpoint, PlacedLocal(l),
           Goto(r, l) \/ StartRequest(r, endpoint, l), UNCHANGED <<images, items>>
    PROVE  Placed'
  <1>1. PlacedReqs'  BY PlacedGoto DEF Placed
  <1> QED  BY <1>1 DEF Placed, PlacedImages, PlacedItems

LEMMA PlacedCreate ==
    ASSUME TrashTypeOK, PlacedItems, NEW item, CreateItem(item), item.trash.dir \in TrashDirs,
           item.original # NoPath => item.original.dir \notin TrashDirs
    PROVE  PlacedItems'
  <1>1. CASE UNCHANGED items  BY <1>1 DEF PlacedItems
  <1>2. CASE items' = With(items, nextId, item)
    <2>1. \A i \in DOMAIN items' : \/ items'[i] = item
                                   \/ i \in DOMAIN items /\ items'[i] = items[i]
      BY <1>2 DEF With
    <2> QED  BY <2>1 DEF PlacedItems
  <1> QED  BY <1>1, <1>2 DEF CreateItem

LEMMA PlacedDrop ==
    ASSUME PlacedItems, NEW S, items' = Lacking(items, S)
    PROVE  PlacedItems'
BY DEF PlacedItems, Lacking

LEMMA TrashPathPlaced ==
    ASSUME NEW dir, NEW p
    PROVE  TrashPath(dir, p).dir = dir
BY DEF TrashPath, In, InTagged

LEMMA DeletePlaced ==
    ASSUME TrashTypeOK, Placed, NEW r \in Requests, DeleteStep(r)
    PROVE  Placed'
  <1> DEFINE l == req[r]
  <1>0. l \in Local /\ PlacedLocal(l)  BY DEF TrashTypeOK, ReqOK, Placed, PlacedReqs
  <1>1. CASE DeleteFiles(r)
    BY <1>1, PlacedRead DEF DeleteFiles, NextFile, PlacedLocal, Placed, PlacedImages, stores
  <1>2. CASE BatchDelete(r)
    <2>1. PICK g \in DuplicateGroups : \E keep \in FolderPattern(g), dir \in {trashDir, NoDir} :
            StartRequest(r, "batch", NextFile(Doomed(g, keep), dir))
      BY <1>2 DEF BatchDelete
    <2>2. PICK keep \in FolderPattern(g), dir \in {trashDir, NoDir} :
            StartRequest(r, "batch", NextFile(Doomed(g, keep), dir))
      BY <2>1
    <2>3. Doomed(g, keep) \subseteq DOMAIN images  BY DEF Doomed, DuplicateGroups
    <2>4. PlacedLocal(NextFile(Doomed(g, keep), dir))
      BY <2>3 DEF NextFile, PlacedLocal, Placed, PlacedImages
    <2> QED  BY <1>2, <2>2, <2>4, PlacedRead DEF BatchDelete, stores
  <1>3. CASE DeleteDone(r)
    BY <1>3, PlacedRead DEF DeleteDone, Finish, Idle, PlacedLocal, stores
  <1>4. ASSUME l.at = "next", NEW p \in l.todo, RemoveForGood(r, p)
        PROVE  Placed'
    <2>1. p.dir \notin TrashDirs /\ \A q \in l.todo : q.dir \notin TrashDirs
      BY <1>0, <1>4 DEF PlacedLocal
    <2>2. /\ PlacedLocal([at |-> "unlist", todo |-> l.todo, dir |-> NoDir, src |-> p])
          /\ PlacedLocal(NextFile(l.todo \ {p}, NoDir))
      BY <2>1 DEF PlacedLocal, NextFile
    <2> QED  BY <1>4, <2>2, PlacedRead DEF RemoveForGood
  <1>5. ASSUME l.at = "next", NEW p \in l.todo, LookUp(r, p)
        PROVE  Placed'
    <2>1. p.dir \notin TrashDirs /\ \A q \in l.todo : q.dir \notin TrashDirs
      BY <1>0, <1>5 DEF PlacedLocal
    <2>2. PlacedLocal([at |-> "choose", todo |-> l.todo, dir |-> l.dir, src |-> p,
                       hash |-> Hash(p)])
      BY <2>1 DEF PlacedLocal
    <2> QED  BY <1>5, <2>2, PlacedRead DEF LookUp, stores
  <1>6. CASE ChooseTrashPath(r)
    <2>1. l.dir \in TrashDirs /\ l.at = "choose"
      BY <1>0, <1>6, LocalShape DEF ChooseTrashPath
    <2>2. PlacedLocal([at |-> "move", todo |-> l.todo, dir |-> l.dir, src |-> l.src,
                       hash |-> l.hash, dst |-> TrashPath(l.dir, l.src)])
      BY <1>0, <2>1, TrashPathPlaced DEF PlacedLocal
    <2> QED  BY <1>6, <2>2, PlacedRead DEF ChooseTrashPath, stores
  <1>7. CASE MoveToTrash(r)
    <2>1. l \in [at : {"move", "record"}, todo : SUBSET Path, dir : TrashDirs, src : Path,
                 hash : MaybeHash, dst : Path] /\ l.at = "move"
      BY <1>0, <1>7, LocalShape DEF MoveToTrash
    <2>2. PlacedLocal([l EXCEPT !.at = "record"]) /\ PlacedLocal(NextFile(l.todo \ {l.src}, l.dir))
      BY <1>0, <2>1 DEF PlacedLocal, NextFile
    <2> QED  BY <1>7, <2>2, PlacedRead DEF MoveToTrash
  <1>8. CASE RecordTrashItem(r)
    <2>1. PlacedLocal([at |-> "unlist", todo |-> l.todo, dir |-> l.dir, src |-> l.src])
      BY <1>0, <1>8 DEF PlacedLocal, RecordTrashItem
    <2>2. PlacedReqs'  BY <1>8, <2>1, PlacedGoto DEF RecordTrashItem, Placed
    <2>3. l.dst.dir \in TrashDirs /\ l.src.dir \notin TrashDirs
      BY <1>0, <1>8 DEF PlacedLocal, RecordTrashItem
    <2>4. PlacedItems'  BY <1>8, <2>3, PlacedCreate DEF RecordTrashItem, Placed
    <2> QED  BY <1>8, <2>2, <2>4 DEF RecordTrashItem, Placed, PlacedImages
  <1>9. CASE DeleteFromDB(r)
    <2>1. PlacedLocal(NextFile(l.todo \ {l.src}, l.dir))
      BY <1>0, <1>9 DEF PlacedLocal, NextFile, DeleteFromDB
    <2>2. PlacedReqs'  BY <1>9, <2>1, PlacedGoto DEF DeleteFromDB, Placed
    <2>3. PlacedImages'  BY <1>9 DEF DeleteFromDB, Lacking, Placed, PlacedImages
    <2> QED  BY <1>9, <2>2, <2>3 DEF DeleteFromDB, Placed, PlacedItems
  <1> QED  BY <1>1, <1>2, <1>3, <1>4, <1>5, <1>6, <1>7, <1>8, <1>9 DEF DeleteStep

LEMMA ListPlaced ==
    ASSUME TrashTypeOK, Placed, NEW r \in Requests, ListStep(r)
    PROVE  Placed'
  <1> DEFINE l == req[r]
  <1>0. l \in Local /\ PlacedLocal(l)  BY DEF TrashTypeOK, ReqOK, Placed, PlacedReqs
  <1>1. CASE ReadTrashDir(r)
    <2>1. trashDir \in TrashDirs  BY <1>1 DEF ReadTrashDir, TrashTypeOK, EnvOK
    <2>2. PlacedLocal([at |-> "rows", onDisk |-> FilesIn(trashDir)])
      BY <2>1 DEF PlacedLocal, FilesIn
    <2> QED  BY <1>1, <2>2, PlacedRead DEF ReadTrashDir, stores
  <1>2. CASE ReadTrashRows(r)
    <2>1. PlacedLocal([at |-> "reconcile", backfill |-> l.onDisk, prune |-> StaleRows(l.onDisk)])
      BY <1>0, <1>2 DEF PlacedLocal, ReadTrashRows
    <2> QED  BY <1>2, <2>1, PlacedRead DEF ReadTrashRows, stores
  <1>3. ASSUME l.at = "reconcile", NEW p \in l.backfill, Backfill(r, p)
        PROVE  Placed'
    <2>1. l \in [at : {"reconcile"}, backfill : SUBSET Path, prune : SUBSET Nat]
      BY <1>0, <1>3, LocalShape
    <2>2. PlacedLocal([l EXCEPT !.backfill = @ \ {p}])  BY <1>0, <2>1 DEF PlacedLocal
    <2>3. PlacedReqs'  BY <1>3, <2>2, PlacedGoto DEF Backfill, Placed
    <2>4. p.dir \in TrashDirs  BY <1>0, <1>3 DEF PlacedLocal
    <2>5. PlacedItems'  BY <1>3, <2>4, PlacedCreate DEF Backfill, Placed
    <2> QED  BY <1>3, <2>3, <2>5 DEF Backfill, Placed, PlacedImages
  <1>4. ASSUME l.at = "reconcile", NEW i \in l.prune, Prune(r, i)
        PROVE  Placed'
    <2>1. l \in [at : {"reconcile"}, backfill : SUBSET Path, prune : SUBSET Nat]
      BY <1>0, <1>4, LocalShape
    <2>2. PlacedLocal([l EXCEPT !.prune = @ \ {i}])  BY <1>0, <2>1 DEF PlacedLocal
    <2>3. PlacedReqs'  BY <1>4, <2>2, PlacedGoto DEF Prune, Placed
    <2>4. PlacedItems'  BY <1>4, PlacedDrop DEF Prune, Placed
    <2> QED  BY <1>4, <2>3, <2>4 DEF Prune, Placed, PlacedImages
  <1>5. CASE Reconciled(r)
    BY <1>5, PlacedRead DEF Reconciled, Finish, Idle, PlacedLocal, stores
  <1> QED  BY <1>1, <1>2, <1>3, <1>4, <1>5 DEF ListStep

LEMMA RestorePlaced ==
    ASSUME TrashTypeOK, Placed, NEW r \in Requests, RestoreStep(r)
    PROVE  Placed'
  <1> DEFINE l == req[r]
  <1>0. l \in Local /\ PlacedLocal(l)  BY DEF TrashTypeOK, ReqOK, Placed, PlacedReqs
  <1>1. ASSUME NEW i \in DOMAIN items, LoadForRestore(r, i)
        PROVE  Placed'
    <2>1. PlacedLocal([at |-> "target", id |-> i, item |-> items[i]])
      BY <1>1 DEF LoadForRestore, PlacedLocal, Placed, PlacedItems
    <2> QED  BY <1>1, <2>1, PlacedRead DEF LoadForRestore, stores
  <1>2. CASE ChooseTarget(r)
    <2> DEFINE dst == IF l.item.original \in DOMAIN disk
                      THEN InTagged(Cwd, l.item.trash, "restored", clock)
                      ELSE l.item.original
               next == [at |-> "restore", id |-> l.id, src |-> l.item.trash,
                        dst |-> dst, hash |-> l.item.hash]
    <2>1. l.item.trash.dir \in TrashDirs /\ l.item.original.dir \notin TrashDirs
      BY <1>0, <1>2 DEF ChooseTarget, PlacedLocal
    <2>2. dst.dir \notin TrashDirs  BY <2>1, DirsAreDistinct DEF InTagged
    <2>3. PlacedLocal(next)  BY <2>1, <2>2 DEF PlacedLocal
    <2>4. PlacedLocal(Idle)  BY DEF PlacedLocal, Idle
    <2>5. CASE l.item.trash \in DOMAIN disk
      BY <1>2, <2>3, <2>5, PlacedRead DEF ChooseTarget, stores
    <2>6. CASE l.item.trash \notin DOMAIN disk
      BY <1>2, <2>4, <2>6, PlacedRead DEF ChooseTarget, Finish, stores
    <2> QED  BY <2>5, <2>6
  <1>3. CASE RestoreMove(r)
    <2>1. l \in [at : {"restore", "relist"}, id : Nat, src : Path, dst : Path,
                 hash : MaybeHash] /\ l.at = "restore"
      BY <1>0, <1>3, LocalShape DEF RestoreMove
    <2>2. PlacedLocal([l EXCEPT !.at = "relist"]) /\ PlacedLocal(Idle)
      BY <1>0, <2>1 DEF PlacedLocal, Idle
    <2> QED  BY <1>3, <2>2, PlacedRead DEF RestoreMove, Finish
  <1>4. CASE Relist(r)
    <2>1. l.dst.dir \notin TrashDirs  BY <1>0, <1>4 DEF PlacedLocal, Relist
    <2>2. PlacedLocal([at |-> "dropitem", id |-> l.id])  BY DEF PlacedLocal
    <2>3. PlacedReqs'  BY <1>4, <2>2, PlacedGoto DEF Relist, Placed
    <2>4. DOMAIN images' \subseteq DOMAIN images \cup {l.dst}  BY <1>4 DEF Relist, With
    <2> QED  BY <1>4, <2>1, <2>3, <2>4 DEF Relist, Placed, PlacedImages, PlacedItems
  <1>5. CASE DropItem(r)
    <2>1. PlacedReqs'  BY <1>5, PlacedGoto DEF DropItem, Finish, Idle, PlacedLocal, Placed
    <2>2. PlacedItems'  BY <1>5, PlacedDrop DEF DropItem, Placed
    <2> QED  BY <1>5, <2>1, <2>2 DEF DropItem, Placed, PlacedImages
  <1> QED  BY <1>1, <1>2, <1>3, <1>4, <1>5 DEF RestoreStep

LEMMA PurgePlaced ==
    ASSUME TrashTypeOK, Placed, NEW r \in Requests, PurgeStep(r)
    PROVE  Placed'
  <1> DEFINE l == req[r]
  <1>0. l \in Local /\ PlacedLocal(l)  BY DEF TrashTypeOK, ReqOK, Placed, PlacedReqs
  <1>1. ASSUME NEW i \in DOMAIN items, LoadForDelete(r, i)
        PROVE  Placed'
    BY <1>1, PlacedRead DEF LoadForDelete, PlacedLocal, Placed, PlacedItems, stores
  <1>2. CASE Purge(r)
    <2>1. PlacedLocal([at |-> "dropitem", id |-> l.id]) /\ PlacedLocal(Idle)
      BY DEF PlacedLocal, Idle
    <2> QED  BY <1>2, <2>1, PlacedRead DEF Purge, Finish
  <1>3. CASE ReadForClean(r)
    <2>1. trashDir \in TrashDirs  BY <1>3 DEF ReadForClean, TrashTypeOK, EnvOK
    <2>2. PlacedLocal([at |-> "clean", todo |-> FilesIn(trashDir)])
      BY <2>1 DEF PlacedLocal, FilesIn
    <2> QED  BY <1>3, <2>2, PlacedRead DEF ReadForClean, stores
  <1>4. CASE CleanRows(r)
    <2>1. PlacedReqs'  BY <1>4, PlacedGoto DEF CleanRows, Finish, Idle, PlacedLocal, Placed
    <2>2. PlacedItems'  BY <1>4 DEF CleanRows, PlacedItems
    <2> QED  BY <1>4, <2>1, <2>2 DEF CleanRows, Placed, PlacedImages
  <1>5. ASSUME l.at = "clean", NEW p \in l.todo, CleanFile(r, p)
        PROVE  Placed'
    <2>1. l \in [at : {"clean"}, todo : SUBSET Path]  BY <1>0, <1>5, LocalShape
    <2>2. PlacedLocal([l EXCEPT !.todo = @ \ {p}])  BY <1>0, <2>1 DEF PlacedLocal
    <2> QED  BY <1>5, <2>2, PlacedRead DEF CleanFile
  <1> QED  BY <1>1, <1>2, <1>3, <1>4, <1>5 DEF PurgeStep

LEMMA MovePlaced ==
    ASSUME TrashTypeOK, Placed, NEW r \in Requests, MoveStep(r)
    PROVE  Placed'
  <1> DEFINE l == req[r]
  <1>0. l \in Local /\ PlacedLocal(l)  BY DEF TrashTypeOK, ReqOK, Placed, PlacedReqs
  <1>1. ASSUME NEW p \in DOMAIN images, NEW dir \in Folders, ChooseDestination(r, p, dir)
        PROVE  Placed'
    <2>1. PlacedLocal([at |-> "destination", src |-> p, dir |-> dir, n |-> 0])
      BY DEF PlacedLocal, Placed, PlacedImages
    <2> QED  BY <1>1, <2>1, PlacedRead DEF ChooseDestination, stores
  <1>4. CASE TryDestination(r)
    <2>1. l.src.dir \notin TrashDirs /\ l.dir \notin TrashDirs
      <3>1. l.at = "destination"  BY <1>4 DEF TryDestination
      <3>2. l.dir \in Folders  BY <1>0, <3>1, LocalShape
      <3> QED  BY <1>0, <3>1, <3>2, DirsAreDistinct DEF PlacedLocal
    <2>2. PICK m \in Local : /\ Goto(r, m) /\ m.src = l.src
                             /\ \/ m.at = "destination"
                                \/ m.at = "carry" /\ m.dst.dir = l.dir
      BY <1>4, TryTyped DEF TrashTypeOK, ReqOK
    <2>3. PlacedLocal(m)  BY <2>1, <2>2 DEF PlacedLocal
    <2>4. UNCHANGED <<images, items>>  BY <1>4 DEF TryDestination, stores
    <2> QED  BY <2>2, <2>3, <2>4, PlacedRead
  <1>2. CASE Carry(r)
    <2>1. l \in [at : {"carry", "repath"}, src : Path, dst : Path] /\ l.at = "carry"
      BY <1>0, <1>2, LocalShape DEF Carry
    <2>2. PlacedLocal([l EXCEPT !.at = "repath"]) /\ PlacedLocal(Idle)
      BY <1>0, <2>1 DEF PlacedLocal, Idle
    <2> QED  BY <1>2, <2>2, PlacedRead DEF Carry, Finish
  <1>3. CASE UpdatePath(r)
    <2>1. l.dst.dir \notin TrashDirs  BY <1>0, <1>3 DEF PlacedLocal, UpdatePath
    <2>2. PlacedReqs'  BY <1>3, PlacedGoto DEF UpdatePath, Finish, Idle, PlacedLocal, Placed
    <2>3. DOMAIN images' \subseteq DOMAIN images \cup {l.dst}
      BY <1>3 DEF UpdatePath, Renamed, With, Lacking
    <2> QED  BY <1>3, <2>1, <2>2, <2>3 DEF UpdatePath, Placed, PlacedImages, PlacedItems
  <1> QED  BY <1>1, <1>2, <1>3, <1>4 DEF MoveStep

LEMMA PlacedKept == TrashTypeOK /\ Placed /\ [TrashNext]_trashVars => Placed'
  <1> SUFFICES ASSUME TrashTypeOK, Placed, [TrashNext]_trashVars PROVE Placed'  OBVIOUS
  <1>1. CASE Environment \/ UNCHANGED trashVars
    <2>1. UNCHANGED <<images, items>>
      BY <1>1 DEF Environment, Tick, Crash, SetTrashDir, stores, trashVars
    <2>2. UNCHANGED req \/ req' = [r \in Requests |-> Idle]
      BY <1>1 DEF Environment, Tick, Crash, SetTrashDir, stores, trashVars
    <2>3. PlacedReqs'
      <3>1. PlacedLocal(Idle)  BY DEF PlacedLocal, Idle
      <3>2. \A r \in Requests : PlacedLocal(req'[r])  BY <2>2, <3>1 DEF Placed, PlacedReqs
      <3> QED  BY <3>2 DEF PlacedReqs
    <2> QED  BY <2>1, <2>3 DEF Placed, PlacedImages, PlacedItems
  <1> QED
    BY <1>1, DeletePlaced, ListPlaced, RestorePlaced, PurgePlaced, MovePlaced DEF TrashNext

LEMMA InitPlaced == TrashInit => Placed
  <1> SUFFICES ASSUME TrashInit PROVE Placed  OBVIOUS
  <1>1. PlacedImages
    <2>1. \A p \in DOMAIN disk : p.dir \in Folders  BY InitialDisksAreGalleries DEF TrashInit
    <2> QED  BY <2>1, DirsAreDistinct DEF TrashInit, PlacedImages
  <1>2. PlacedItems  BY DEF TrashInit, PlacedItems
  <1>3. PlacedReqs  BY DEF TrashInit, PlacedReqs, PlacedLocal, Idle
  <1> QED  BY <1>1, <1>2, <1>3 DEF Placed

-------------------------------------------------------------------------------
(* What the scenarios exclude                                              *)

Step(r) == DeleteStep(r) \/ ListStep(r) \/ RestoreStep(r) \/ PurgeStep(r) \/ MoveStep(r)

LEMMA NoFaults ==
    ASSUME TrashTypeOK, TrashScenarioNext, Faultless
    PROVE  ~Refusal /\ ~Crash
  <1>1. trashScenario' = trashScenario /\ faults' <= trashScenario'.failures /\ crashes' <= trashScenario'.failures
    BY DEF TrashScenarioNext, Within
  <1>2. faults' <= 0 /\ crashes' <= 0  BY <1>1 DEF Faultless
  <1>3. faults \in Nat /\ crashes \in Nat  BY DEF TrashTypeOK, EnvOK
  <1> QED  BY <1>2, <1>3 DEF Refusal, Crash

\* One by one: at most one goroutine is at work
Alone == \A r, s \in Requests : req[r] # Idle /\ req[s] # Idle => r = s
Others(r) == \A s \in Requests \ {r} : req[s] = Idle

LEMMA FewInFlight ==
    ASSUME NEW S \in SUBSET Requests, Cardinality(S) <= 1
    PROVE  \A r, s \in S : r = s
  <1> SUFFICES ASSUME NEW r \in S, NEW s \in S, r # s PROVE FALSE  OBVIOUS
  <1>1. IsFiniteSet(S)  BY TrashScenariosOK, FS_Subset
  <1>2. Cardinality(S) \in Nat  BY <1>1, FS_CardinalityType
  <1>3. IsFiniteSet(S \ {r}) /\ Cardinality(S \ {r}) = Cardinality(S) - 1
    BY <1>1, FS_RemoveElement
  <1>4. Cardinality(S \ {r}) \in Nat  BY <1>3, FS_CardinalityType
  <1>5. Cardinality(S \ {r}) = 0  BY <1>2, <1>3, <1>4
  <1>6. S \ {r} = {}  BY <1>3, <1>5, FS_EmptySet
  <1> QED  BY <1>6

LEMMA AloneNext == TrashScenarioNext /\ OneByOne => Alone'
  <1> SUFFICES ASSUME TrashScenarioNext, OneByOne PROVE Alone'  OBVIOUS
  <1> DEFINE S == {r \in Requests : req'[r] # Idle}
  <1>1. Cardinality(S) <= trashScenario'.requests  BY DEF TrashScenarioNext, Within, InFlight
  <1>2. Cardinality(S) <= 1  BY <1>1 DEF TrashScenarioNext, OneByOne
  <1>3. \A r, s \in S : r = s
    <2> HIDE DEF S
    <2>1. S \in SUBSET Requests  BY DEF S
    <2> QED  BY <1>2, <2>1, FewInFlight
  <1> QED  BY <1>3 DEF Alone

LEMMA StepMoves ==
    ASSUME TrashTypeOK, NEW r \in Requests, Step(r)
    PROVE  \E l : /\ req' = [req EXCEPT ![r] = l]
                  /\ req[r] # Idle \/ l # Idle
  <1> DEFINE l == req[r]
             Moved == \E m : req' = [req EXCEPT ![r] = m] /\ (req[r] # Idle \/ m # Idle)
  <1> SUFFICES Moved  OBVIOUS
  <1>1. ASSUME NEW m, Goto(r, m), l.at # "idle" PROVE Moved
    <2>1. req' = [req EXCEPT ![r] = m]  BY <1>1 DEF Goto
    <2>2. req[r] # Idle  BY <1>1 DEF Idle
    <2> QED  BY <2>1, <2>2
  <1>2. ASSUME NEW m, NEW endpoint, StartRequest(r, endpoint, m), m.at # "idle" PROVE Moved
    <2>1. req' = [req EXCEPT ![r] = m]  BY <1>2 DEF StartRequest
    <2>2. m # Idle  BY <1>2 DEF Idle
    <2> QED  BY <2>1, <2>2
  <1> HIDE DEF Moved
  <1>3. CASE DeleteFiles(r)  BY <1>2, <1>3 DEF DeleteFiles, NextFile
  <1>4. CASE BatchDelete(r)  BY <1>2, <1>4 DEF BatchDelete, NextFile
  <1>5. CASE DeleteDone(r) \/ ChooseTrashPath(r) \/ MoveToTrash(r) \/ RecordTrashItem(r)
             \/ DeleteFromDB(r)
    BY <1>1, <1>5 DEF DeleteDone, ChooseTrashPath, MoveToTrash, RecordTrashItem, DeleteFromDB,
        Finish
  <1>6. ASSUME NEW p, RemoveForGood(r, p) \/ LookUp(r, p) PROVE Moved
    BY <1>1, <1>6 DEF RemoveForGood, LookUp
  <1>7. CASE ReadTrashDir(r) \/ ReadTrashRows(r) \/ Reconciled(r)
    BY <1>1, <1>2, <1>7 DEF ReadTrashDir, ReadTrashRows, Reconciled, Finish
  <1>8. ASSUME NEW p, Backfill(r, p) \/ Prune(r, p) PROVE Moved
    BY <1>1, <1>8 DEF Backfill, Prune
  <1>9. ASSUME NEW i, LoadForRestore(r, i) \/ LoadForDelete(r, i) PROVE Moved
    BY <1>2, <1>9 DEF LoadForRestore, LoadForDelete
  <1>10. CASE ChooseTarget(r) \/ RestoreMove(r) \/ Relist(r) \/ DropItem(r)
    BY <1>1, <1>10 DEF ChooseTarget, RestoreMove, Relist, DropItem, Finish
  <1>11. CASE Purge(r) \/ ReadForClean(r) \/ CleanRows(r)
    BY <1>1, <1>2, <1>11 DEF Purge, ReadForClean, CleanRows, Finish
  <1>12. ASSUME NEW p, CleanFile(r, p) PROVE Moved  BY <1>1, <1>12 DEF CleanFile
  <1>13. ASSUME NEW p, NEW dir, ChooseDestination(r, p, dir) PROVE Moved
    BY <1>2, <1>13 DEF ChooseDestination
  <1>14. CASE TryDestination(r) \/ Carry(r) \/ UpdatePath(r)
    BY <1>1, <1>14 DEF TryDestination, Carry, UpdatePath, Finish
  <1> QED
    BY <1>3, <1>4, <1>5, <1>6, <1>7, <1>8, <1>9, <1>10, <1>11, <1>12, <1>13, <1>14
    DEF Step, DeleteStep, ListStep, RestoreStep, PurgeStep, MoveStep

LEMMA ActsAlone ==
    ASSUME TrashTypeOK, Alone, Alone', NEW r \in Requests, Step(r)
    PROVE  /\ Others(r) /\ Others(r)'
           /\ \A q \in Requests \ {r} : Others(q)' => req'[q] = req'[r]
  <1>1. PICK l : req' = [req EXCEPT ![r] = l] /\ (req[r] # Idle \/ l # Idle)  BY StepMoves
  <1>2. req \in [Requests -> Local]  BY DEF TrashTypeOK, ReqOK
  <1>3. req'[r] = l /\ \A s \in Requests \ {r} : req'[s] = req[s]  BY <1>1, <1>2
  <1>4. CASE req[r] # Idle  BY <1>3, <1>4 DEF Alone, Others
  <1>5. CASE l # Idle  BY <1>3, <1>5 DEF Alone, Others
  <1> QED  BY <1>1, <1>4, <1>5 DEF Others

\* The one at work, or anyone if nobody is
LEMMA SomeoneAlone ==
    ASSUME Alone
    PROVE  \E r \in Requests : Others(r)
  <1>1. CASE \E r \in Requests : req[r] # Idle  BY <1>1 DEF Alone, Others
  <1>2. CASE \A r \in Requests : req[r] = Idle  BY <1>2, TrashScenariosOK DEF Others
  <1> QED  BY <1>1, <1>2

-------------------------------------------------------------------------------
(* One request after the other: the gallery table and the files            *)

\* What the gallery table owes the disk while its goroutine holds l
GalleryAt(l) ==
    /\ l.at \notin {"record", "unlist", "relist", "carry", "repath"} =>
          DOMAIN images = GalleryFilesOnDisk
    /\ l.at \in {"record", "unlist"} => DOMAIN images \ {l.src} = GalleryFilesOnDisk
    /\ l.at = "relist" => DOMAIN images \cup {l.dst} = GalleryFilesOnDisk
    /\ l.at = "carry" => DOMAIN images = GalleryFilesOnDisk /\ l.dst \notin DOMAIN disk
    /\ l.at = "repath" =>
          /\ l.src \in DOMAIN images /\ l.dst \notin DOMAIN images
          /\ (DOMAIN images \ {l.src}) \cup {l.dst} = GalleryFilesOnDisk

\* What a move without faults does to the files outside the trash
LEMMA GalleryMoves ==
    ASSUME TrashTypeOK, ~Refusal, NEW src, NEW dst,
           Moves(src, dst) \/ CopiesOnly(src, dst) \/ MoveFails(src, dst)
    PROVE  \/ /\ Moves(src, dst)
              /\ src \in DOMAIN disk
              /\ DOMAIN disk' = (DOMAIN disk \ {src}) \cup {dst}
           \/ MoveFails(src, dst) /\ UNCHANGED disk /\ src \notin DOMAIN disk
  <1>1. CASE Moves(src, dst)
    BY <1>1 DEF Moves, Renamed, With, Lacking
  <1> QED  BY <1>1 DEF CopiesOnly, MoveFails

LEMMA GalleryDelete ==
    ASSUME TrashTypeOK, Placed, ~Refusal, NEW r \in Requests, GalleryAt(req[r]), DeleteStep(r)
    PROVE  GalleryAt(req[r])'
  <1> DEFINE l == req[r]
  <1>0. l \in Local /\ PlacedLocal(l) /\ req \in [Requests -> Local]
    BY DEF TrashTypeOK, ReqOK, Placed, PlacedReqs
  <1>1. CASE UNCHANGED <<disk, images>> /\ l.at \notin {"record", "unlist", "relist", "carry", "repath"}
             /\ req'[r].at \notin {"record", "unlist", "relist", "carry", "repath"}
    BY <1>1 DEF GalleryAt, GalleryFilesOnDisk
  <1>2. CASE DeleteFiles(r) \/ BatchDelete(r)
    BY <1>0, <1>1, <1>2 DEF DeleteFiles, BatchDelete, NextFile, StartRequest, Idle, stores
  <1>3. CASE DeleteDone(r) \/ ChooseTrashPath(r)
    BY <1>0, <1>1, <1>3 DEF DeleteDone, ChooseTrashPath, Goto, Finish, Idle, stores
  <1>4. ASSUME l.at = "next", NEW p \in l.todo, RemoveForGood(r, p)
        PROVE  GalleryAt(req[r])'
    <2>1. p.dir \notin TrashDirs  BY <1>0, <1>4 DEF PlacedLocal
    <2>2. CASE p \in DOMAIN disk
      <3>1. req'[r] = [at |-> "unlist", todo |-> l.todo, dir |-> NoDir, src |-> p]
        BY <1>0, <1>4, <2>2 DEF RemoveForGood, Goto
      <3>2. DOMAIN disk' = DOMAIN disk \ {p}  BY <1>4, <2>2 DEF RemoveForGood, Lacking
      <3>3. GalleryFilesOnDisk' = GalleryFilesOnDisk \ {p}  BY <3>2 DEF GalleryFilesOnDisk
      <3>4. DOMAIN images' \ {p} = GalleryFilesOnDisk'
        BY <1>4, <3>3 DEF RemoveForGood, GalleryAt
      <3> QED  BY <3>1, <3>4 DEF GalleryAt
    <2>3. CASE p \notin DOMAIN disk
      BY <1>0, <1>1, <1>4, <2>3 DEF RemoveForGood, Goto, NextFile
    <2> QED  BY <2>2, <2>3
  <1>5. ASSUME l.at = "next", NEW p \in l.todo, LookUp(r, p)
        PROVE  GalleryAt(req[r])'
    BY <1>0, <1>1, <1>5 DEF LookUp, Goto, stores
  <1>7. CASE MoveToTrash(r)
    <2>1. l \in [at : {"move", "record"}, todo : SUBSET Path, dir : TrashDirs, src : Path,
                 hash : MaybeHash, dst : Path] /\ l.at = "move"
      BY <1>0, <1>7, LocalShape DEF MoveToTrash
    <2>2. l.src.dir \notin TrashDirs /\ l.dst.dir \in TrashDirs  BY <1>0, <2>1 DEF PlacedLocal
    <2>3. CASE Moves(l.src, l.dst)
      <3>1. req'[r] = [l EXCEPT !.at = "record"]
        BY <1>0, <1>7, <2>3 DEF MoveToTrash, Goto, Moves, CopiesOnly, MoveFails, Refusal, TrashTypeOK, EnvOK
      <3>2. DOMAIN disk' = (DOMAIN disk \ {l.src}) \cup {l.dst}
        BY <2>3, GalleryMoves DEF MoveFails, Moves
      <3>3. GalleryFilesOnDisk' = GalleryFilesOnDisk \ {l.src}
        BY <2>2, <3>2 DEF GalleryFilesOnDisk
      <3>4. req'[r].at = "record" /\ req'[r].src = l.src  BY <2>1, <3>1
      <3>5. DOMAIN images' = GalleryFilesOnDisk  BY <1>7, <2>1 DEF MoveToTrash, GalleryAt
      <3> QED  BY <3>3, <3>4, <3>5 DEF GalleryAt
    <2>4. CASE ~Moves(l.src, l.dst)
      <3>1. UNCHANGED disk  BY <1>7, <2>4, GalleryMoves DEF MoveToTrash
      <3>2. req'[r] = NextFile(l.todo \ {l.src}, l.dir)  BY <1>0, <1>7, <2>4 DEF MoveToTrash, Goto
      <3> QED  BY <1>1, <1>7, <2>1, <3>1, <3>2 DEF MoveToTrash, NextFile
    <2> QED  BY <2>3, <2>4
  <1>8. CASE RecordTrashItem(r)
    <2>1. req'[r].at = "unlist" /\ req'[r].src = l.src  BY <1>0, <1>8 DEF RecordTrashItem, Goto
    <2> QED  BY <1>8, <2>1 DEF RecordTrashItem, GalleryAt, GalleryFilesOnDisk
  <1>9. CASE DeleteFromDB(r)
    <2>1. req'[r].at = "next"  BY <1>0, <1>9 DEF DeleteFromDB, Goto, NextFile
    <2>2. DOMAIN images' = DOMAIN images \ {l.src}  BY <1>9 DEF DeleteFromDB, Lacking
    <2> QED  BY <1>9, <2>1, <2>2 DEF DeleteFromDB, GalleryAt, GalleryFilesOnDisk
  <1> QED  BY <1>2, <1>3, <1>4, <1>5, <1>7, <1>8, <1>9 DEF DeleteStep

LEMMA GalleryList ==
    ASSUME TrashTypeOK, NEW r \in Requests, GalleryAt(req[r]), ListStep(r)
    PROVE  GalleryAt(req[r])'
  <1> DEFINE l == req[r]
  <1>0. l \in Local /\ req \in [Requests -> Local]  BY DEF TrashTypeOK, ReqOK
  <1>1. CASE UNCHANGED <<disk, images>> /\ l.at \notin {"record", "unlist", "relist", "carry", "repath"}
             /\ req'[r].at \notin {"record", "unlist", "relist", "carry", "repath"}
    BY <1>1 DEF GalleryAt, GalleryFilesOnDisk
  <1>2. CASE ReadTrashDir(r) \/ ReadTrashRows(r) \/ Reconciled(r)
    BY <1>0, <1>1, <1>2 DEF ReadTrashDir, ReadTrashRows, Reconciled, Goto, StartRequest, Finish, Idle, stores
  <1>3. ASSUME l.at = "reconcile", NEW p \in l.backfill, Backfill(r, p)
        PROVE  GalleryAt(req[r])'
    <2>1. l \in [at : {"reconcile"}, backfill : SUBSET Path, prune : SUBSET Nat]
      BY <1>0, <1>3, LocalShape
    <2>2. req'[r] = [l EXCEPT !.backfill = @ \ {p}]  BY <1>0, <1>3 DEF Backfill, Goto
    <2>3. req'[r].at = "reconcile"  BY <2>1, <2>2
    <2> QED  BY <1>1, <1>3, <2>3 DEF Backfill
  <1>4. ASSUME l.at = "reconcile", NEW i \in l.prune, Prune(r, i)
        PROVE  GalleryAt(req[r])'
    <2>1. l \in [at : {"reconcile"}, backfill : SUBSET Path, prune : SUBSET Nat]
      BY <1>0, <1>4, LocalShape
    <2>2. req'[r] = [l EXCEPT !.prune = @ \ {i}]  BY <1>0, <1>4 DEF Prune, Goto
    <2>3. req'[r].at = "reconcile"  BY <2>1, <2>2
    <2> QED  BY <1>1, <1>4, <2>3 DEF Prune
  <1> QED  BY <1>2, <1>3, <1>4 DEF ListStep

LEMMA GalleryRestore ==
    ASSUME TrashTypeOK, Placed, ~Refusal, NEW r \in Requests, GalleryAt(req[r]), RestoreStep(r)
    PROVE  GalleryAt(req[r])'
  <1> DEFINE l == req[r]
  <1>0. l \in Local /\ PlacedLocal(l) /\ req \in [Requests -> Local]
    BY DEF TrashTypeOK, ReqOK, Placed, PlacedReqs
  <1>1. CASE UNCHANGED <<disk, images>> /\ l.at \notin {"record", "unlist", "relist", "carry", "repath"}
             /\ req'[r].at \notin {"record", "unlist", "relist", "carry", "repath"}
    BY <1>1 DEF GalleryAt, GalleryFilesOnDisk
  <1>2. ASSUME NEW i \in DOMAIN items, LoadForRestore(r, i)
        PROVE  GalleryAt(req[r])'
    BY <1>0, <1>1, <1>2 DEF LoadForRestore, StartRequest, Idle, stores
  <1>3. CASE ChooseTarget(r)
    <2>1. req'[r].at \in {"restore", "idle"}  BY <1>0, <1>3 DEF ChooseTarget, Goto, Finish, Idle
    <2> QED  BY <1>1, <1>3, <2>1 DEF ChooseTarget, stores
  <1>4. CASE RestoreMove(r)
    <2>1. l \in [at : {"restore", "relist"}, id : Nat, src : Path, dst : Path,
                 hash : MaybeHash] /\ l.at = "restore"
      BY <1>0, <1>4, LocalShape DEF RestoreMove
    <2>2. l.src.dir \in TrashDirs /\ l.dst.dir \notin TrashDirs  BY <1>0, <2>1 DEF PlacedLocal
    <2>3. CASE Moves(l.src, l.dst)
      <3>1. req'[r] = [l EXCEPT !.at = "relist"]
        BY <1>0, <1>4, <2>3 DEF RestoreMove, Goto, Moves, MoveFails, Refusal, TrashTypeOK, EnvOK
      <3>2. DOMAIN disk' = (DOMAIN disk \ {l.src}) \cup {l.dst}
        BY <2>3, GalleryMoves DEF MoveFails, Moves
      <3>3. GalleryFilesOnDisk' = GalleryFilesOnDisk \cup {l.dst}
        BY <2>2, <3>2 DEF GalleryFilesOnDisk
      <3>4. req'[r].at = "relist" /\ req'[r].dst = l.dst  BY <2>1, <3>1
      <3>5. DOMAIN images' = GalleryFilesOnDisk  BY <1>4, <2>1 DEF RestoreMove, GalleryAt
      <3> QED  BY <3>3, <3>4, <3>5 DEF GalleryAt
    <2>4. CASE ~Moves(l.src, l.dst)
      <3>1. UNCHANGED disk /\ l.src \notin DOMAIN disk
        BY <1>4, <2>4, GalleryMoves DEF RestoreMove
      <3>2. req'[r] = Idle
        BY <1>0, <1>4, <2>4, <3>1 DEF RestoreMove, Goto, Finish, CopiesOnly
      <3> QED  BY <1>1, <1>4, <2>1, <3>1, <3>2 DEF RestoreMove, Idle
    <2> QED  BY <2>3, <2>4
  <1>5. CASE Relist(r)
    <2>1. req'[r].at = "dropitem"  BY <1>0, <1>5 DEF Relist, Goto
    <2>2. DOMAIN images' = DOMAIN images \cup {l.dst}  BY <1>5 DEF Relist, With
    <2> QED  BY <1>5, <2>1, <2>2 DEF Relist, GalleryAt, GalleryFilesOnDisk
  <1>6. CASE DropItem(r)
    BY <1>0, <1>1, <1>6 DEF DropItem, Goto, Finish, Idle
  <1> QED  BY <1>2, <1>3, <1>4, <1>5, <1>6 DEF RestoreStep

\* A file of the trash goes
LEMMA TrashShrinks ==
    ASSUME NEW p, p.dir \in TrashDirs, disk' = Lacking(disk, {p}) \/ UNCHANGED disk
    PROVE  GalleryFilesOnDisk' = GalleryFilesOnDisk
BY DEF GalleryFilesOnDisk, Lacking

LEMMA GalleryPurge ==
    ASSUME TrashTypeOK, Placed, NEW r \in Requests, GalleryAt(req[r]), PurgeStep(r)
    PROVE  GalleryAt(req[r])'
  <1> DEFINE l == req[r]
  <1>0. l \in Local /\ PlacedLocal(l) /\ req \in [Requests -> Local]
    BY DEF TrashTypeOK, ReqOK, Placed, PlacedReqs
  <1>1. CASE /\ UNCHANGED images /\ GalleryFilesOnDisk' = GalleryFilesOnDisk
             /\ l.at \notin {"record", "unlist", "relist", "carry", "repath"}
             /\ req'[r].at \notin {"record", "unlist", "relist", "carry", "repath"}
    BY <1>1 DEF GalleryAt
  <1>2. ASSUME NEW i \in DOMAIN items, LoadForDelete(r, i)
        PROVE  GalleryAt(req[r])'
    BY <1>0, <1>1, <1>2 DEF LoadForDelete, StartRequest, Idle, stores, GalleryFilesOnDisk
  <1>3. CASE Purge(r)
    <2>1. l.src.dir \in TrashDirs /\ l.at = "purge"  BY <1>0, <1>3 DEF Purge, PlacedLocal
    <2>2. GalleryFilesOnDisk' = GalleryFilesOnDisk  BY <1>3, <2>1, TrashShrinks DEF Purge
    <2>3. req'[r].at \in {"dropitem", "idle"}  BY <1>0, <1>3 DEF Purge, Goto, Finish, Idle
    <2> QED  BY <1>1, <1>3, <2>1, <2>2, <2>3 DEF Purge
  <1>4. CASE ReadForClean(r) \/ CleanRows(r)
    <2>1. GalleryFilesOnDisk' = GalleryFilesOnDisk
      BY <1>4 DEF ReadForClean, CleanRows, stores, GalleryFilesOnDisk
    <2> QED  BY <1>0, <1>1, <1>4, <2>1 DEF ReadForClean, CleanRows, Goto, StartRequest, Finish, Idle, stores
  <1>5. ASSUME l.at = "clean", NEW p \in l.todo, CleanFile(r, p)
        PROVE  GalleryAt(req[r])'
    <2>1. l \in [at : {"clean"}, todo : SUBSET Path]  BY <1>0, <1>5, LocalShape
    <2>2. req'[r] = [l EXCEPT !.todo = @ \ {p}]  BY <1>0, <1>5 DEF CleanFile, Goto
    <2>3. req'[r].at = "clean"  BY <2>1, <2>2
    <2>4. p.dir \in TrashDirs  BY <1>0, <1>5 DEF PlacedLocal
    <2>5. GalleryFilesOnDisk' = GalleryFilesOnDisk  BY <1>5, <2>4, TrashShrinks DEF CleanFile
    <2> QED  BY <1>1, <1>5, <2>3, <2>5 DEF CleanFile
  <1> QED  BY <1>2, <1>3, <1>4, <1>5 DEF PurgeStep

LEMMA GalleryMove ==
    ASSUME TrashTypeOK, Placed, ~Refusal, NEW r \in Requests, GalleryAt(req[r]), MoveStep(r)
    PROVE  GalleryAt(req[r])'
  <1> DEFINE l == req[r]
  <1>0. l \in Local /\ PlacedLocal(l) /\ req \in [Requests -> Local]
    BY DEF TrashTypeOK, ReqOK, Placed, PlacedReqs
  <1>1. ASSUME NEW p \in DOMAIN images, NEW dir \in Folders, ChooseDestination(r, p, dir)
        PROVE  GalleryAt(req[r])'
    <2>1. req[r] = Idle /\ req'[r] = [at |-> "destination", src |-> p, dir |-> dir, n |-> 0]
      BY <1>0, <1>1 DEF ChooseDestination, StartRequest
    <2>2. DOMAIN images = GalleryFilesOnDisk  BY <2>1 DEF GalleryAt, Idle
    <2> QED  BY <1>1, <2>1, <2>2 DEF ChooseDestination, stores, GalleryAt, GalleryFilesOnDisk
  <1>4. CASE TryDestination(r)
    <2>1. l.at = "destination" /\ UNCHANGED <<disk, images>>  BY <1>4 DEF TryDestination, stores
    <2>2. DOMAIN images = GalleryFilesOnDisk  BY <2>1 DEF GalleryAt
    <2>3. \/ req'[r].at = "destination"
          \/ req'[r].at = "carry" /\ req'[r].dst \notin DOMAIN disk
      BY <1>0, <1>4, TryTyped
    <2> QED  BY <2>1, <2>2, <2>3 DEF GalleryAt, GalleryFilesOnDisk
  <1>2. CASE Carry(r)
    <2>1. l \in [at : {"carry", "repath"}, src : Path, dst : Path] /\ l.at = "carry"
      BY <1>0, <1>2, LocalShape DEF Carry
    <2>2. l.src.dir \notin TrashDirs /\ l.dst.dir \notin TrashDirs  BY <1>0, <2>1 DEF PlacedLocal
    <2>3. DOMAIN images = GalleryFilesOnDisk /\ l.dst \notin DOMAIN disk  BY <2>1 DEF GalleryAt
    <2>4. CASE Moves(l.src, l.dst)
      <3>1. req'[r] = [l EXCEPT !.at = "repath"]
        BY <1>0, <1>2, <2>4 DEF Carry, Goto, Moves, CopiesOnly, MoveFails, Refusal, TrashTypeOK, EnvOK
      <3>2. l.src \in DOMAIN disk /\ DOMAIN disk' = (DOMAIN disk \ {l.src}) \cup {l.dst}
        BY <2>4, GalleryMoves DEF MoveFails, Moves
      <3>3. GalleryFilesOnDisk' = (GalleryFilesOnDisk \ {l.src}) \cup {l.dst}
        BY <2>2, <3>2 DEF GalleryFilesOnDisk
      <3>4. req'[r].at = "repath" /\ req'[r].src = l.src /\ req'[r].dst = l.dst  BY <2>1, <3>1
      <3>5. l.src \in DOMAIN images /\ l.dst \notin DOMAIN images
        BY <2>2, <2>3, <3>2 DEF GalleryFilesOnDisk
      <3> QED  BY <1>2, <2>3, <3>3, <3>4, <3>5 DEF Carry, GalleryAt
    <2>5. CASE ~Moves(l.src, l.dst)
      <3>1. UNCHANGED disk  BY <1>2, <2>5, GalleryMoves DEF Carry
      <3>2. req'[r] = Idle  BY <1>0, <1>2, <2>5 DEF Carry, Goto, Finish
      <3> QED  BY <1>2, <2>3, <3>1, <3>2 DEF Carry, Idle, GalleryAt, GalleryFilesOnDisk
    <2> QED  BY <2>4, <2>5
  <1>3. CASE UpdatePath(r)
    <2>1. /\ l.src \in DOMAIN images /\ l.dst \notin DOMAIN images
          /\ (DOMAIN images \ {l.src}) \cup {l.dst} = GalleryFilesOnDisk
      BY <1>3 DEF UpdatePath, GalleryAt
    <2>2. DOMAIN images' = (DOMAIN images \ {l.src}) \cup {l.dst}
      BY <1>3, <2>1 DEF UpdatePath, Renamed, With, Lacking
    <2>3. req'[r] = Idle  BY <1>0, <1>3 DEF UpdatePath, Goto, Finish
    <2> QED  BY <1>3, <2>1, <2>2, <2>3 DEF UpdatePath, Idle, GalleryAt, GalleryFilesOnDisk
  <1> QED  BY <1>1, <1>2, <1>3, <1>4 DEF MoveStep

GallerySerial == \A r \in Requests : Others(r) => GalleryAt(req[r])

LEMMA GallerySerialKept ==
    ASSUME TrashTypeOK, Placed, Alone, OneByOne, Faultless, GallerySerial, [TrashScenarioNext]_trashScenarioVars
    PROVE  GallerySerial'
  <1>1. CASE UNCHANGED <<disk, images, req>>
    BY <1>1 DEF GallerySerial, GalleryAt, GalleryFilesOnDisk, Others
  <1>2. CASE UNCHANGED trashScenarioVars  BY <1>1, <1>2 DEF trashScenarioVars, trashVars
  <1>3. ASSUME TrashScenarioNext, Environment PROVE GallerySerial'
    <2>1. ~Crash  BY <1>3, NoFaults
    <2> QED  BY <1>1, <1>3, <2>1 DEF Environment, Tick, SetTrashDir, stores
  <1>4. ASSUME TrashScenarioNext, NEW r \in Requests, Step(r) PROVE GallerySerial'
    <2>1. Alone'  BY <1>4, AloneNext
    <2>2. /\ Others(r) /\ Others(r)'
          /\ \A q \in Requests \ {r} : Others(q)' => req'[q] = req'[r]
      BY <1>4, <2>1, ActsAlone
    <2>3. ~Refusal  BY <1>4, NoFaults
    <2>4. GalleryAt(req[r])  BY <2>2 DEF GallerySerial
    <2>5. GalleryAt(req[r])'
      BY <1>4, <2>3, <2>4, GalleryDelete, GalleryList, GalleryRestore, GalleryPurge, GalleryMove
      DEF Step
    <2>6. ASSUME NEW q \in Requests, Others(q)' PROVE GalleryAt(req[q])'
      <3>1. req'[q] = req'[r]  BY <2>2, <2>6
      <3> QED  BY <2>5, <3>1 DEF GalleryAt
    <2> QED  BY <2>6 DEF GallerySerial
  <1> QED  BY <1>2, <1>3, <1>4 DEF TrashScenarioNext, TrashNext, Step

-------------------------------------------------------------------------------
(* Deletions only, any number at once: the gallery table and the files     *)

LEMMA Begun ==
    ASSUME TrashTypeOK, TrashScenarioNext, NEW r \in Requests, NEW endpoint, NEW l, StartRequest(r, endpoint, l),
           l.at # "idle"
    PROVE  Permitted(r) /\ req'[r] = l
  <1>1. calls' # calls  BY DEF StartRequest, TrashTypeOK, ReqOK
  <1>2. req'[r] = l /\ req[r] = Idle  BY DEF StartRequest, TrashTypeOK, ReqOK
  <1>3. req'[r] # req[r]  BY <1>2 DEF Idle
  <1> QED  BY <1>1, <1>2, <1>3 DEF TrashScenarioNext

\* What a request's first step says of the endpoint
LEMMA Endpoint ==
    ASSUME TrashTypeOK, NEW r \in Requests, Permitted(r)
    PROVE  /\ req'[r].at = "next" => "delete" \in trashScenario.calls \/ BatchDelete(r)
           /\ req'[r].at = "rows" => "list" \in trashScenario.calls
           /\ req'[r].at = "target" => "restore" \in trashScenario.calls
           /\ req'[r].at = "purge" => "purge" \in trashScenario.calls
           /\ req'[r].at = "clean" => "clean" \in trashScenario.calls
           /\ req'[r].at = "destination" => "move" \in trashScenario.calls
  <1>0. req \in [Requests -> Local]  BY DEF TrashTypeOK, ReqOK
  <1>1. CASE "delete" \in trashScenario.calls /\ DeleteFiles(r)
    BY <1>0, <1>1 DEF DeleteFiles, StartRequest, NextFile
  <1>2. CASE "batch" \in trashScenario.calls /\ BatchDelete(r)
    <2>1. req'[r].at = "next"  BY <1>0, <1>2 DEF BatchDelete, StartRequest, NextFile
    <2> QED  BY <1>2, <2>1
  <1>3. CASE "list" \in trashScenario.calls /\ ReadTrashDir(r)
    BY <1>0, <1>3 DEF ReadTrashDir, StartRequest
  <1>4. CASE "restore" \in trashScenario.calls /\ \E i \in DOMAIN items : LoadForRestore(r, i)
    BY <1>0, <1>4 DEF LoadForRestore, StartRequest
  <1>5. CASE "purge" \in trashScenario.calls /\ \E i \in DOMAIN items : LoadForDelete(r, i)
    BY <1>0, <1>5 DEF LoadForDelete, StartRequest
  <1>6. CASE "clean" \in trashScenario.calls /\ ReadForClean(r)
    BY <1>0, <1>6 DEF ReadForClean, StartRequest
  <1>7. CASE /\ "move" \in trashScenario.calls
             /\ \E p \in DOMAIN images, dir \in Folders : ChooseDestination(r, p, dir)
    BY <1>0, <1>7 DEF ChooseDestination, StartRequest
  <1> QED  BY <1>1, <1>2, <1>3, <1>4, <1>5, <1>6, <1>7 DEF Permitted

OnlyDeletions == trashScenario.calls \subseteq Deletions

\* Points that deletions never reach
Restores == {"target", "restore", "relist", "destination", "carry", "repath"}

NoRestores == \A r \in Requests : req[r].at \notin Restores

\* The file of the row has left, and the row is about to follow it.
Leaving(p) == \E r \in Requests : req[r].at \in {"record", "unlist"} /\ req[r].src = p
AllListed == GalleryFilesOnDisk \subseteq DOMAIN images
ListedOrLeaving == \A p \in DOMAIN images : p \in DOMAIN disk \/ Leaving(p)
LeftAlready == \A r \in Requests :
    req[r].at \in {"record", "unlist"} => req[r].src \notin DOMAIN disk
DeletionInv == NoRestores /\ AllListed /\ ListedOrLeaving /\ LeftAlready

LEMMA NoRestoresKept ==
    ASSUME TrashTypeOK, TrashScenarioNext, OnlyDeletions, NoRestores, NEW r \in Requests, Step(r)
    PROVE  /\ DeleteStep(r) \/ ListStep(r) \/ PurgeStep(r) \/ DropItem(r)
           /\ NoRestores'
  <1> DEFINE l == req[r]
  <1>0. req \in [Requests -> Local] /\ l \in Local /\ l.at \notin Restores
    BY DEF TrashTypeOK, ReqOK, NoRestores
  <1>1. "restore" \notin trashScenario.calls /\ "move" \notin trashScenario.calls
    BY DEF OnlyDeletions, Deletions
  <1>2. ASSUME NEW i \in DOMAIN items, LoadForRestore(r, i) PROVE FALSE
    BY <1>1, <1>2, Begun, Endpoint DEF LoadForRestore
  <1>3. ASSUME NEW p \in DOMAIN images, NEW dir \in Folders, ChooseDestination(r, p, dir)
        PROVE FALSE
    BY <1>1, <1>3, Begun, Endpoint DEF ChooseDestination
  <1>4. DeleteStep(r) \/ ListStep(r) \/ PurgeStep(r) \/ DropItem(r)
    <2>1. ~RestoreStep(r) \/ DropItem(r)
      BY <1>0, <1>2 DEF RestoreStep, ChooseTarget, RestoreMove, Relist, Restores
    <2>2. ~MoveStep(r)  BY <1>0, <1>3 DEF MoveStep, TryDestination, Carry, UpdatePath, Restores
    <2> QED  BY <2>1, <2>2 DEF Step
  <1>5. req'[r].at \notin Restores
    <2> USE DEF Restores
    <2>1. CASE DeleteFiles(r) \/ BatchDelete(r) \/ DeleteDone(r) \/ ChooseTrashPath(r)
               \/ RecordTrashItem(r) \/ DeleteFromDB(r)
      BY <1>0, <2>1 DEF DeleteFiles, BatchDelete, DeleteDone, ChooseTrashPath, RecordTrashItem,
          DeleteFromDB, Goto, StartRequest, Finish, NextFile, Idle
    <2>2. ASSUME NEW p, RemoveForGood(r, p) \/ LookUp(r, p) PROVE req'[r].at \notin Restores
      BY <1>0, <2>2 DEF RemoveForGood, LookUp, Goto, NextFile
    <2>3. CASE MoveToTrash(r)
      <3>1. l \in [at : {"move", "record"}, todo : SUBSET Path, dir : TrashDirs, src : Path,
                   hash : MaybeHash, dst : Path] /\ l.at = "move"
        BY <1>0, <2>3, LocalShape DEF MoveToTrash
      <3>2. [l EXCEPT !.at = "record"].at = "record"  BY <3>1
      <3>3. req'[r] \in {[l EXCEPT !.at = "record"], NextFile(l.todo \ {l.src}, l.dir)}
        BY <1>0, <2>3 DEF MoveToTrash, Goto
      <3>4. NextFile(l.todo \ {l.src}, l.dir).at = "next"  BY DEF NextFile
      <3> QED  BY <3>2, <3>3, <3>4
    <2>4. CASE ListStep(r) \/ PurgeStep(r) \/ DropItem(r)
      <3>1. CASE ReadTrashDir(r) \/ ReadTrashRows(r) \/ Reconciled(r)
        BY <1>0, <3>1 DEF ReadTrashDir, ReadTrashRows, Reconciled, Goto, StartRequest, Finish, Idle
      <3>2. ASSUME l.at = "reconcile", NEW p, Backfill(r, p) \/ Prune(r, p)
            PROVE  req'[r].at \notin Restores
        <4>1. l \in [at : {"reconcile"}, backfill : SUBSET Path, prune : SUBSET Nat]
          BY <1>0, <3>2, LocalShape
        <4>2. [l EXCEPT !.backfill = @ \ {p}].at = "reconcile"
              /\ [l EXCEPT !.prune = @ \ {p}].at = "reconcile"
          BY <4>1
        <4> QED  BY <1>0, <3>2, <4>2 DEF Backfill, Prune, Goto
      <3>3. CASE Purge(r) \/ ReadForClean(r) \/ CleanRows(r) \/ DropItem(r)
        BY <1>0, <3>3 DEF Purge, ReadForClean, CleanRows, DropItem, Goto, StartRequest, Finish, Idle
      <3>4. ASSUME NEW i, LoadForDelete(r, i) PROVE req'[r].at \notin Restores
        BY <1>0, <3>4 DEF LoadForDelete, StartRequest
      <3>5. ASSUME l.at = "clean", NEW p, CleanFile(r, p) PROVE req'[r].at \notin Restores
        <4>1. l \in [at : {"clean"}, todo : SUBSET Path]  BY <1>0, <3>5, LocalShape
        <4>2. [l EXCEPT !.todo = @ \ {p}].at = "clean"  BY <4>1
        <4> QED  BY <1>0, <3>5, <4>2 DEF CleanFile, Goto
      <3> QED  BY <2>4, <3>1, <3>2, <3>3, <3>4, <3>5 DEF ListStep, PurgeStep
    <2> QED  BY <1>4, <2>1, <2>2, <2>3, <2>4 DEF DeleteStep
  <1>6. PICK m : req' = [req EXCEPT ![r] = m]  BY StepMoves
  <1>7. \A s \in Requests : req'[s].at \notin Restores  BY <1>0, <1>5, <1>6 DEF NoRestores
  <1> QED  BY <1>4, <1>7 DEF NoRestores

\* Steps that move no file of the gallery and touch none of its rows
LEMMA DeletionIdles ==
    ASSUME TrashTypeOK, Placed, DeletionInv, NEW r \in Requests, UNCHANGED images,
           DOMAIN disk' \subseteq DOMAIN disk, GalleryFilesOnDisk' = GalleryFilesOnDisk,
           NEW m, req' = [req EXCEPT ![r] = m],
           \/ req[r].at \notin {"record", "unlist"} /\ m.at \notin {"record", "unlist"}
           \/ /\ req[r].at \in {"record", "unlist"} /\ m.at \in {"record", "unlist"}
              /\ m.src = req[r].src
    PROVE  AllListed' /\ ListedOrLeaving' /\ LeftAlready'
  <1>1. \A s \in Requests : req'[s] = IF s = r THEN m ELSE req[s]  BY DEF TrashTypeOK, ReqOK
  <1>2. AllListed'  BY DEF DeletionInv, AllListed
  <1>3. LeftAlready'  BY <1>1 DEF DeletionInv, LeftAlready
  <1>4. ASSUME NEW p \in DOMAIN images' PROVE p \in DOMAIN disk' \/ Leaving(p)'
    <2>1. p.dir \notin TrashDirs  BY <1>4 DEF Placed, PlacedImages
    <2>2. CASE p \in DOMAIN disk  BY <2>1, <2>2 DEF GalleryFilesOnDisk
    <2>3. CASE Leaving(p)
      <3>1. PICK s \in Requests : req[s].at \in {"record", "unlist"} /\ req[s].src = p
        BY <2>3 DEF Leaving
      <3>2. req'[s].at \in {"record", "unlist"} /\ req'[s].src = p  BY <1>1, <3>1
      <3> QED  BY <3>2 DEF Leaving
    <2> QED  BY <1>4, <2>2, <2>3 DEF DeletionInv, ListedOrLeaving
  <1> QED  BY <1>2, <1>3, <1>4 DEF ListedOrLeaving

LEMMA DeletionDeletes ==
    ASSUME TrashTypeOK, Placed, ~Refusal, DeletionInv, NEW r \in Requests, DeleteStep(r)
    PROVE  AllListed' /\ ListedOrLeaving' /\ LeftAlready'
  <1> DEFINE l == req[r]
             Kept == AllListed' /\ ListedOrLeaving' /\ LeftAlready'
             Quietly(m) == /\ req' = [req EXCEPT ![r] = m]
                           /\ l.at \notin {"record", "unlist"} /\ m.at \notin {"record", "unlist"}
  <1> SUFFICES Kept  OBVIOUS
  <1>0. l \in Local /\ PlacedLocal(l) /\ req \in [Requests -> Local]
    BY DEF TrashTypeOK, ReqOK, Placed, PlacedReqs
  <1>1. ASSUME NEW m, Quietly(m), UNCHANGED <<disk, images>> PROVE Kept
    <2>1. DOMAIN disk' \subseteq DOMAIN disk /\ GalleryFilesOnDisk' = GalleryFilesOnDisk
      BY <1>1 DEF GalleryFilesOnDisk
    <2> QED  BY <1>1, <2>1, DeletionIdles
  \* the file src leaves the gallery, for the row of src to follow
  <1>2. ASSUME NEW p \in Path, p.dir \notin TrashDirs, UNCHANGED images, NEW m,
               GalleryFilesOnDisk' = GalleryFilesOnDisk \ {p}, p \notin DOMAIN disk',
               \A q \in DOMAIN disk' : q \in DOMAIN disk \/ q.dir \in TrashDirs,
               req' = [req EXCEPT ![r] = m], m.at \in {"record", "unlist"}, m.src = p,
               l.at \notin {"record", "unlist"}
        PROVE  Kept
    <2>1. \A s \in Requests : req'[s] = IF s = r THEN m ELSE req[s]  BY <1>0, <1>2
    <2>2. AllListed'  BY <1>2 DEF DeletionInv, AllListed
    <2>3. ASSUME NEW s \in Requests, req'[s].at \in {"record", "unlist"}
          PROVE  req'[s].src \notin DOMAIN disk'
      <3>1. CASE s = r  BY <1>2, <2>1, <3>1
      <3>2. CASE s # r
        <4>1. req'[s] = req[s]  BY <2>1, <3>2
        <4>2. req[s].src \notin DOMAIN disk  BY <2>3, <4>1 DEF DeletionInv, LeftAlready
        <4>3. req[s].src.dir \notin TrashDirs
          BY <2>3, <4>1 DEF Placed, PlacedReqs, PlacedLocal
        <4> QED  BY <1>2, <4>1, <4>2, <4>3
      <3> QED  BY <3>1, <3>2
    <2>4. ASSUME NEW q \in DOMAIN images' PROVE q \in DOMAIN disk' \/ Leaving(q)'
      <3>1. CASE q = p  BY <1>2, <2>1, <3>1 DEF Leaving
      <3>2. CASE q # p /\ q \in DOMAIN disk
        <4>1. q.dir \notin TrashDirs  BY <1>2, <2>4 DEF Placed, PlacedImages
        <4>2. q \in GalleryFilesOnDisk'  BY <1>2, <3>2, <4>1 DEF GalleryFilesOnDisk
        <4> QED  BY <4>2 DEF GalleryFilesOnDisk
      <3>3. CASE Leaving(q)
        <4>1. PICK s \in Requests : req[s].at \in {"record", "unlist"} /\ req[s].src = q
          BY <3>3 DEF Leaving
        <4>2. req'[s] = req[s]  BY <1>2, <2>1, <4>1
        <4> QED  BY <4>1, <4>2 DEF Leaving
      <3> QED  BY <1>2, <2>4, <3>1, <3>2, <3>3 DEF DeletionInv, ListedOrLeaving
    <2>5. LeftAlready'  BY <2>3 DEF LeftAlready
    <2>6. ListedOrLeaving'  BY <2>4 DEF ListedOrLeaving
    <2> QED  BY <2>2, <2>5, <2>6
  <1> HIDE DEF Kept
  <1>3. CASE DeleteFiles(r)
    <2>1. PICK S \in SUBSET DOMAIN images, dir \in {trashDir, NoDir} :
            StartRequest(r, "delete", NextFile(S, dir))
      BY <1>3 DEF DeleteFiles
    <2>2. l = Idle /\ req' = [req EXCEPT ![r] = NextFile(S, dir)]  BY <2>1 DEF StartRequest
    <2>3. l.at = "idle" /\ NextFile(S, dir).at = "next"  BY <2>2 DEF Idle, NextFile
    <2>4. UNCHANGED <<disk, images>>  BY <1>3 DEF DeleteFiles, stores
    <2> QED  BY <1>1, <2>2, <2>3, <2>4
  <1>4. CASE BatchDelete(r)
    <2>1. PICK S, dir : StartRequest(r, "batch", NextFile(S, dir))  BY <1>4 DEF BatchDelete
    <2>2. l = Idle /\ req' = [req EXCEPT ![r] = NextFile(S, dir)]  BY <2>1 DEF StartRequest
    <2>3. l.at = "idle" /\ NextFile(S, dir).at = "next"  BY <2>2 DEF Idle, NextFile
    <2>4. UNCHANGED <<disk, images>>  BY <1>4 DEF BatchDelete, stores
    <2> QED  BY <1>1, <2>2, <2>3, <2>4
  <1>5. CASE DeleteDone(r) \/ ChooseTrashPath(r)
    BY <1>1, <1>5 DEF DeleteDone, ChooseTrashPath, Goto, Finish, Idle, stores
  <1>6. ASSUME l.at = "next", NEW p \in l.todo, LookUp(r, p) PROVE Kept
    BY <1>1, <1>6 DEF LookUp, Goto, stores
  <1>7. ASSUME l.at = "next", NEW p \in l.todo, RemoveForGood(r, p) PROVE Kept
    <2>1. p \in Path /\ p.dir \notin TrashDirs
      BY <1>0, <1>7, LocalShape DEF PlacedLocal
    <2>2. CASE p \in DOMAIN disk
      <3> DEFINE m == [at |-> "unlist", todo |-> l.todo, dir |-> NoDir, src |-> p]
      <3>1. req' = [req EXCEPT ![r] = m] /\ UNCHANGED images /\ disk' = Lacking(disk, {p})
        BY <1>7, <2>2 DEF RemoveForGood, Goto
      <3>2. DOMAIN disk' = DOMAIN disk \ {p}  BY <3>1 DEF Lacking
      <3>3. GalleryFilesOnDisk' = GalleryFilesOnDisk \ {p}  BY <3>2 DEF GalleryFilesOnDisk
      <3>4. m.at \in {"record", "unlist"} /\ m.src = p  OBVIOUS
      <3> HIDE DEF m
      <3> QED  BY <1>2, <1>7, <2>1, <3>1, <3>2, <3>3, <3>4
    <2>3. CASE p \notin DOMAIN disk
      BY <1>1, <1>7, <2>3 DEF RemoveForGood, Goto, NextFile
    <2> QED  BY <2>2, <2>3
  <1>8. CASE MoveToTrash(r)
    <2>1. l \in [at : {"move", "record"}, todo : SUBSET Path, dir : TrashDirs, src : Path,
                 hash : MaybeHash, dst : Path] /\ l.at = "move"
      BY <1>0, <1>8, LocalShape DEF MoveToTrash
    <2>2. l.src.dir \notin TrashDirs /\ l.dst.dir \in TrashDirs  BY <1>0, <2>1 DEF PlacedLocal
    <2>3. CASE Moves(l.src, l.dst)
      <3> DEFINE m == [l EXCEPT !.at = "record"]
      <3>1. req' = [req EXCEPT ![r] = m] /\ UNCHANGED images
        BY <1>8, <2>3 DEF MoveToTrash, Goto, Moves, CopiesOnly, MoveFails, Refusal, TrashTypeOK, EnvOK
      <3>2. DOMAIN disk' = (DOMAIN disk \ {l.src}) \cup {l.dst}
        BY <2>3, GalleryMoves DEF MoveFails, Moves
      <3>3. GalleryFilesOnDisk' = GalleryFilesOnDisk \ {l.src}
        BY <2>2, <3>2 DEF GalleryFilesOnDisk
      <3>4. m.at = "record" /\ m.src = l.src  BY <2>1
      <3>5. l.src # l.dst /\ l.src \in Path  BY <2>1, <2>2
      <3> HIDE DEF m
      <3> QED  BY <1>2, <2>1, <2>2, <3>1, <3>2, <3>3, <3>4, <3>5
    <2>4. CASE ~Moves(l.src, l.dst)
      <3>1. UNCHANGED disk  BY <1>8, <2>4, GalleryMoves DEF MoveToTrash
      <3>2. req' = [req EXCEPT ![r] = NextFile(l.todo \ {l.src}, l.dir)]
        BY <1>8, <2>4 DEF MoveToTrash, Goto
      <3>3. NextFile(l.todo \ {l.src}, l.dir).at = "next"  BY DEF NextFile
      <3>4. UNCHANGED images  BY <1>8 DEF MoveToTrash
      <3> QED  BY <1>1, <2>1, <3>1, <3>2, <3>3, <3>4
    <2> QED  BY <2>3, <2>4
  <1>9. CASE RecordTrashItem(r)
    <2> DEFINE m == [at |-> "unlist", todo |-> l.todo, dir |-> l.dir, src |-> l.src]
    <2>1. req' = [req EXCEPT ![r] = m] /\ UNCHANGED <<disk, images>> /\ l.at = "record"
      BY <1>9 DEF RecordTrashItem, Goto
    <2>2. DOMAIN disk' \subseteq DOMAIN disk /\ GalleryFilesOnDisk' = GalleryFilesOnDisk
      BY <2>1 DEF GalleryFilesOnDisk
    <2>3. m.at = "unlist" /\ m.src = l.src  OBVIOUS
    <2> HIDE DEF m
    <2> QED  BY <2>1, <2>2, <2>3, DeletionIdles DEF Kept
  <1>10. CASE DeleteFromDB(r)
    <2>1. l.at = "unlist" /\ l.src \notin DOMAIN disk
      BY <1>10 DEF DeleteFromDB, DeletionInv, LeftAlready
    <2>2. \A s \in Requests : req'[s] = IF s = r THEN NextFile(l.todo \ {l.src}, l.dir) ELSE req[s]
      BY <1>0, <1>10 DEF DeleteFromDB, Goto
    <2>3. UNCHANGED disk /\ DOMAIN images' = DOMAIN images \ {l.src}
      BY <1>10 DEF DeleteFromDB, Lacking
    <2>4. AllListed'  BY <2>1, <2>3 DEF DeletionInv, AllListed, GalleryFilesOnDisk
    <2>5. LeftAlready'  BY <2>2, <2>3 DEF DeletionInv, LeftAlready, NextFile
    <2>6. ASSUME NEW q \in DOMAIN images' PROVE q \in DOMAIN disk' \/ Leaving(q)'
      <3>1. q \in DOMAIN images /\ q # l.src  BY <2>3, <2>6
      <3>2. CASE Leaving(q)
        <4>1. PICK s \in Requests : req[s].at \in {"record", "unlist"} /\ req[s].src = q
          BY <3>2 DEF Leaving
        <4>2. req'[s] = req[s]  BY <2>2, <3>1, <4>1
        <4> QED  BY <4>1, <4>2 DEF Leaving
      <3> QED  BY <2>3, <3>1, <3>2 DEF DeletionInv, ListedOrLeaving
    <2>7. ListedOrLeaving'  BY <2>6 DEF ListedOrLeaving
    <2> QED  BY <2>4, <2>5, <2>7 DEF Kept
  <1> QED  BY <1>3, <1>4, <1>5, <1>6, <1>7, <1>8, <1>9, <1>10 DEF DeleteStep

LEMMA DeletionOthers ==
    ASSUME TrashTypeOK, Placed, DeletionInv, NEW r \in Requests,
           ListStep(r) \/ PurgeStep(r) \/ DropItem(r)
    PROVE  AllListed' /\ ListedOrLeaving' /\ LeftAlready'
  <1> DEFINE l == req[r]
             Kept == AllListed' /\ ListedOrLeaving' /\ LeftAlready'
  <1> SUFFICES Kept  OBVIOUS
  <1>0. l \in Local /\ PlacedLocal(l)  BY DEF TrashTypeOK, ReqOK, Placed, PlacedReqs
  <1>1. ASSUME NEW m, req' = [req EXCEPT ![r] = m], UNCHANGED images,
               l.at \notin {"record", "unlist"}, m.at \notin {"record", "unlist"},
               NEW p, p.dir \in TrashDirs, disk' = Lacking(disk, {p}) \/ UNCHANGED disk
        PROVE  Kept
    <2>1. GalleryFilesOnDisk' = GalleryFilesOnDisk  BY <1>1, TrashShrinks
    <2>2. DOMAIN disk' \subseteq DOMAIN disk  BY <1>1 DEF Lacking
    <2> QED  BY <1>1, <2>1, <2>2, DeletionIdles
  <1>2. ASSUME NEW m, req' = [req EXCEPT ![r] = m], UNCHANGED <<disk, images>>,
               l.at \notin {"record", "unlist"}, m.at \notin {"record", "unlist"}
        PROVE  Kept
    <2>1. DOMAIN disk' \subseteq DOMAIN disk /\ GalleryFilesOnDisk' = GalleryFilesOnDisk
      BY <1>2 DEF GalleryFilesOnDisk
    <2> QED  BY <1>2, <2>1, DeletionIdles
  <1> HIDE DEF Kept
  <1>3. CASE ReadTrashDir(r) \/ ReadTrashRows(r) \/ Reconciled(r)
    BY <1>2, <1>3 DEF ReadTrashDir, ReadTrashRows, Reconciled, Goto, StartRequest, Finish, Idle, stores
  <1>4. ASSUME l.at = "reconcile", NEW p, Backfill(r, p) PROVE Kept
    <2>1. l \in [at : {"reconcile"}, backfill : SUBSET Path, prune : SUBSET Nat]
      BY <1>0, <1>4, LocalShape
    <2>2. [l EXCEPT !.backfill = @ \ {p}].at = "reconcile"  BY <2>1
    <2> QED  BY <1>2, <1>4, <2>2 DEF Backfill, Goto
  <1>5. ASSUME l.at = "reconcile", NEW p, Prune(r, p) PROVE Kept
    <2>1. l \in [at : {"reconcile"}, backfill : SUBSET Path, prune : SUBSET Nat]
      BY <1>0, <1>5, LocalShape
    <2>2. [l EXCEPT !.prune = @ \ {p}].at = "reconcile"  BY <2>1
    <2> QED  BY <1>2, <1>5, <2>2 DEF Prune, Goto
  <1>6. ASSUME NEW i, LoadForDelete(r, i) PROVE Kept
    <2> DEFINE m == [at |-> "purge", id |-> i, src |-> items[i].trash]
    <2>1. l = Idle /\ req' = [req EXCEPT ![r] = m] /\ UNCHANGED <<disk, images>>
      BY <1>6 DEF LoadForDelete, StartRequest, stores
    <2>2. l.at = "idle" /\ m.at = "purge"  BY <2>1 DEF Idle
    <2> HIDE DEF m
    <2> QED  BY <1>2, <2>1, <2>2
  <1>7. CASE ReadForClean(r) \/ CleanRows(r) \/ DropItem(r)
    BY <1>2, <1>7 DEF ReadForClean, CleanRows, DropItem, StartRequest, Goto, Finish, Idle, stores
  <1>8. CASE Purge(r)
    <2>1. l.at = "purge" /\ l.src.dir \in TrashDirs  BY <1>0, <1>8 DEF Purge, PlacedLocal
    <2>2. \/ req' = [req EXCEPT ![r] = [at |-> "dropitem", id |-> l.id]]
          \/ req' = [req EXCEPT ![r] = Idle]
      BY <1>8 DEF Purge, Goto, Finish
    <2>3. UNCHANGED images /\ (disk' = Lacking(disk, {l.src}) \/ UNCHANGED disk)
      BY <1>8 DEF Purge
    <2> QED  BY <1>1, <2>1, <2>2, <2>3 DEF Idle
  <1>9. ASSUME l.at = "clean", NEW p \in l.todo, CleanFile(r, p) PROVE Kept
    <2>1. l \in [at : {"clean"}, todo : SUBSET Path]  BY <1>0, <1>9, LocalShape
    <2>2. [l EXCEPT !.todo = @ \ {p}].at = "clean"  BY <2>1
    <2>3. req' = [req EXCEPT ![r] = [l EXCEPT !.todo = @ \ {p}]]  BY <1>9 DEF CleanFile, Goto
    <2>4. p.dir \in TrashDirs  BY <1>0, <1>9 DEF PlacedLocal
    <2>5. UNCHANGED images /\ (disk' = Lacking(disk, {p}) \/ UNCHANGED disk)
      BY <1>9 DEF CleanFile
    <2> QED  BY <1>1, <1>9, <2>2, <2>3, <2>4, <2>5
  <1> QED  BY <1>3, <1>4, <1>5, <1>6, <1>7, <1>8, <1>9 DEF ListStep, PurgeStep

LEMMA DeletionKept ==
    ASSUME TrashTypeOK, Placed, OnlyDeletions, Faultless, DeletionInv, [TrashScenarioNext]_trashScenarioVars
    PROVE  DeletionInv'
  <1>1. CASE UNCHANGED <<disk, images, req>>
    BY <1>1 DEF DeletionInv, NoRestores, AllListed, ListedOrLeaving, LeftAlready, Leaving,
        GalleryFilesOnDisk
  <1>2. CASE UNCHANGED trashScenarioVars  BY <1>1, <1>2 DEF trashScenarioVars, trashVars
  <1>3. ASSUME TrashScenarioNext, Environment PROVE DeletionInv'
    <2>1. ~Crash  BY <1>3, NoFaults
    <2> QED  BY <1>1, <1>3, <2>1 DEF Environment, Tick, SetTrashDir, stores
  <1>4. ASSUME TrashScenarioNext, NEW r \in Requests, Step(r) PROVE DeletionInv'
    <2>1. ~Refusal  BY <1>4, NoFaults
    <2>2. NoRestores' /\ (DeleteStep(r) \/ ListStep(r) \/ PurgeStep(r) \/ DropItem(r))
      BY <1>4, NoRestoresKept DEF DeletionInv
    <2>3. AllListed' /\ ListedOrLeaving' /\ LeftAlready'
      BY <2>1, <2>2, DeletionDeletes, DeletionOthers
    <2> QED  BY <2>2, <2>3 DEF DeletionInv
  <1> QED  BY <1>2, <1>3, <1>4 DEF TrashScenarioNext, TrashNext, Step

-------------------------------------------------------------------------------
(* Whatever overlaps or fails, a file keeps the stem of its photo's name:  *)
(* Of gives, by the stem, the contents a file may have and the hashes that *)
(* a table or a goroutine may hold of it.                                  *)

NamedHash(Of, h, p) == h = NoHash \/ h \in Of[p.name.stem]

\* A name that the program made of another one
From(p, q) == SameStem(p, q) /\ Len(p.name.tags) <= Len(q.name.tags)

NamedLocal(Of, l) ==
    /\ l.at \in {"move", "record", "restore", "relist", "carry", "repath"} =>
          SameStem(l.src, l.dst)
    /\ l.at \in {"move", "record"} => From(l.src, l.dst)
    /\ l.at \in {"choose", "move", "record", "restore", "relist"} => NamedHash(Of, l.hash, l.src)
    /\ l.at = "target" =>
          /\ From(l.item.original, l.item.trash)
          /\ NamedHash(Of, l.item.hash, l.item.trash)

NamedDisk(Of) == \A p \in DOMAIN disk : disk[p] \in Of[p.name.stem]
NamedImages(Of) == \A p \in DOMAIN images : NamedHash(Of, images[p], p)
NamedItem(Of, item) ==
    /\ NamedHash(Of, item.hash, item.trash)
    /\ item.original # NoPath => From(item.original, item.trash)
NamedItems(Of) == \A i \in DOMAIN items : NamedItem(Of, items[i])
NamedReqs(Of) == \A r \in Requests : NamedLocal(Of, req[r])
Named(Of) == NamedDisk(Of) /\ NamedImages(Of) /\ NamedItems(Of) /\ NamedReqs(Of)

LEMMA TagLengthens ==
    ASSUME NEW p \in Path, NEW dir \in Folders \cup TrashDirs \cup {Cwd},
           NEW kind \in TagKinds, NEW n \in Nat
    PROVE  /\ From(p, In(dir, p)) /\ From(p, InTagged(dir, p, kind, n))
           /\ Len(InTagged(dir, p, kind, n).name.tags) = Len(p.name.tags) + 1
           /\ Len(p.name.tags) \in Nat
  <1>1. p.name \in Name  BY DEF Path
  <1>2. p.name.tags \in Seq(TagKinds \X Nat) /\ <<kind, n>> \in TagKinds \X Nat
    BY <1>1 DEF Name
  <1>3. Len(Append(p.name.tags, <<kind, n>>)) = Len(p.name.tags) + 1  BY <1>2
  <1>4. InTagged(dir, p, kind, n).name.tags = Append(p.name.tags, <<kind, n>>)
    BY <1>1 DEF Name, InTagged, Suffixed
  <1>5. Len(p.name.tags) \in Nat  BY <1>2
  <1>6. In(dir, p).name = p.name  BY DEF In
  <1> QED  BY <1>3, <1>4, <1>5, <1>6, TagTyped DEF From, SameStem

LEMMA NamedGoto ==
    ASSUME NEW Of, TrashTypeOK, NamedReqs(Of), NEW r \in Requests, NEW l, NEW endpoint,
           NamedLocal(Of, l), Goto(r, l) \/ StartRequest(r, endpoint, l)
    PROVE  NamedReqs(Of)'
  <1>1. req' = [req EXCEPT ![r] = l] /\ req \in [Requests -> Local]
    BY DEF Goto, StartRequest, TrashTypeOK, ReqOK
  <1>2. \A s \in Requests : NamedLocal(Of, req'[s])  BY <1>1 DEF NamedReqs
  <1> QED  BY <1>2 DEF NamedReqs

LEMMA RenamedKeeps ==
    ASSUME NEW f, NEW src, NEW dst
    PROVE  \A p \in DOMAIN Renamed(f, src, dst) :
              \/ p \in DOMAIN f /\ Renamed(f, src, dst)[p] = f[p]
              \/ p = dst /\ Renamed(f, src, dst)[p] = f[src]
BY DEF Renamed, With, Lacking

LEMMA NamedRead ==
    ASSUME NEW Of, TrashTypeOK, Named(Of), NEW r \in Requests, NEW l, NEW endpoint,
           NamedLocal(Of, l), Goto(r, l) \/ StartRequest(r, endpoint, l),
           UNCHANGED <<images, items>>, NamedDisk(Of)'
    PROVE  Named(Of)'
  <1>1. NamedReqs(Of)'  BY NamedGoto DEF Named
  <1> QED  BY <1>1 DEF Named, NamedImages, NamedItems

LEMMA NamedStays ==
    ASSUME NEW Of, Named(Of), UNCHANGED disk \/ \E p : disk' = Lacking(disk, {p})
    PROVE  NamedDisk(Of)'
BY DEF Named, NamedDisk, Lacking

LEMMA NamedMove ==
    ASSUME NEW Of, Named(Of), NEW src, NEW dst, SameStem(src, dst),
           Moves(src, dst) \/ CopiesOnly(src, dst) \/ MoveFails(src, dst)
    PROVE  NamedDisk(Of)'
  <1>1. \A p \in DOMAIN disk' : \/ p \in DOMAIN disk /\ disk'[p] = disk[p]
                                \/ p = dst /\ src \in DOMAIN disk /\ disk'[p] = disk[src]
    <2>1. CASE src \in DOMAIN disk /\ disk' = Renamed(disk, src, dst)
      BY <2>1 DEF Renamed, With, Lacking
    <2>2. CASE src \in DOMAIN disk /\ disk' = With(disk, dst, disk[src])  BY <2>2 DEF With
    <2>3. CASE UNCHANGED disk  BY <2>3
    <2>4. CASE disk' = Lacking(disk, {dst})  BY <2>4 DEF Lacking
    <2> QED  BY <2>1, <2>2, <2>3, <2>4 DEF Moves, CopiesOnly, MoveFails
  <1> QED  BY <1>1 DEF Named, NamedDisk, SameStem

LEMMA NamedCreate ==
    ASSUME NEW Of, NamedItems(Of), NEW item, CreateItem(item), NamedItem(Of, item)
    PROVE  NamedItems(Of)'
  <1>1. CASE UNCHANGED items  BY <1>1 DEF NamedItems
  <1>2. CASE items' = With(items, nextId, item)
    <2>1. \A i \in DOMAIN items' : \/ items'[i] = item
                                   \/ i \in DOMAIN items /\ items'[i] = items[i]
      BY <1>2 DEF With
    <2> QED  BY <2>1 DEF NamedItems
  <1> QED  BY <1>1, <1>2 DEF CreateItem

LEMMA NamedDrop ==
    ASSUME NEW Of, NamedItems(Of), NEW S, items' = Lacking(items, S)
    PROVE  NamedItems(Of)'
BY DEF NamedItems, Lacking

LEMMA NamedDelete ==
    ASSUME NEW Of, TrashTypeOK, Named(Of), NEW r \in Requests, DeleteStep(r)
    PROVE  Named(Of)'
  <1> DEFINE l == req[r]
  <1>0. l \in Local /\ NamedLocal(Of, l)  BY DEF TrashTypeOK, ReqOK, Named, NamedReqs
  <1>1. UNCHANGED disk => NamedDisk(Of)'  BY NamedStays
  <1>2. NamedLocal(Of, Idle) /\ \A S, dir : NamedLocal(Of, NextFile(S, dir))
    BY DEF NamedLocal, Idle, NextFile
  <1>3. CASE DeleteFiles(r)  BY <1>1, <1>2, <1>3, NamedRead DEF DeleteFiles, stores
  <1>4. CASE BatchDelete(r)  BY <1>1, <1>2, <1>4, NamedRead DEF BatchDelete, stores
  <1>5. CASE DeleteDone(r)  BY <1>1, <1>2, <1>5, NamedRead DEF DeleteDone, Finish, stores
  <1>6. ASSUME l.at = "next", NEW p \in l.todo, RemoveForGood(r, p) PROVE Named(Of)'
    <2>1. NamedLocal(Of, [at |-> "unlist", todo |-> l.todo, dir |-> NoDir, src |-> p])
      BY DEF NamedLocal
    <2>2. NamedDisk(Of)'  BY <1>6, NamedStays DEF RemoveForGood
    <2> QED  BY <1>2, <1>6, <2>1, <2>2, NamedRead DEF RemoveForGood
  <1>7. ASSUME l.at = "next", NEW p \in l.todo, LookUp(r, p) PROVE Named(Of)'
    <2>1. NamedHash(Of, Hash(p), p)  BY DEF Named, NamedImages, NamedHash, Hash
    <2>2. NamedLocal(Of, [at |-> "choose", todo |-> l.todo, dir |-> l.dir, src |-> p,
                          hash |-> Hash(p)])
      BY <2>1 DEF NamedLocal
    <2> QED  BY <1>1, <1>7, <2>2, NamedRead DEF LookUp, stores
  <1>8. CASE ChooseTrashPath(r)
    <2>1. l \in [at : {"choose"}, todo : SUBSET Path, dir : TrashDirs, src : Path,
                 hash : MaybeHash]
      BY <1>0, <1>8, LocalShape DEF ChooseTrashPath
    <2>2. clock \in Nat /\ "stamp" \in TagKinds  BY DEF TrashTypeOK, EnvOK, TagKinds
    <2>3. From(l.src, TrashPath(l.dir, l.src))  BY <2>1, <2>2, TagLengthens DEF TrashPath
    <2>4. NamedLocal(Of, [at |-> "move", todo |-> l.todo, dir |-> l.dir, src |-> l.src,
                          hash |-> l.hash, dst |-> TrashPath(l.dir, l.src)])
      BY <1>0, <2>1, <2>3 DEF NamedLocal, From
    <2> QED  BY <1>1, <1>8, <2>4, NamedRead DEF ChooseTrashPath, stores
  <1>9. CASE MoveToTrash(r)
    <2>1. l \in [at : {"move", "record"}, todo : SUBSET Path, dir : TrashDirs, src : Path,
                 hash : MaybeHash, dst : Path] /\ l.at = "move"
      BY <1>0, <1>9, LocalShape DEF MoveToTrash
    <2>2. SameStem(l.src, l.dst)  BY <1>0, <2>1 DEF NamedLocal
    <2>3. NamedDisk(Of)'  BY <1>9, <2>2, NamedMove DEF MoveToTrash
    <2>4. NamedLocal(Of, [l EXCEPT !.at = "record"])  BY <1>0, <2>1 DEF NamedLocal
    <2> QED  BY <1>2, <1>9, <2>3, <2>4, NamedRead DEF MoveToTrash
  <1>10. CASE RecordTrashItem(r)
    <2>1. From(l.src, l.dst) /\ NamedHash(Of, l.hash, l.src)
      BY <1>0, <1>10 DEF NamedLocal, RecordTrashItem
    <2>2. NamedItem(Of, [trash |-> l.dst, original |-> l.src, hash |-> l.hash])
      BY <2>1 DEF NamedItem, NamedHash, From, SameStem
    <2>3. NamedItems(Of)'  BY <1>10, <2>2, NamedCreate DEF RecordTrashItem, Named
    <2>4. NamedLocal(Of, [at |-> "unlist", todo |-> l.todo, dir |-> l.dir, src |-> l.src])
      BY DEF NamedLocal
    <2>5. NamedReqs(Of)'  BY <1>10, <2>4, NamedGoto DEF RecordTrashItem, Named
    <2> QED  BY <1>1, <1>10, <2>3, <2>5 DEF RecordTrashItem, Named, NamedImages
  <1>11. CASE DeleteFromDB(r)
    <2>1. NamedReqs(Of)'  BY <1>2, <1>11, NamedGoto DEF DeleteFromDB, Named
    <2>2. NamedImages(Of)'  BY <1>11 DEF DeleteFromDB, Lacking, Named, NamedImages
    <2> QED  BY <1>1, <1>11, <2>1, <2>2 DEF DeleteFromDB, Named, NamedItems
  <1> QED  BY <1>3, <1>4, <1>5, <1>6, <1>7, <1>8, <1>9, <1>10, <1>11 DEF DeleteStep

LEMMA NamedList ==
    ASSUME NEW Of, TrashTypeOK, Named(Of), NEW r \in Requests, ListStep(r)
    PROVE  Named(Of)'
  <1> DEFINE l == req[r]
  <1>0. l \in Local /\ NamedLocal(Of, l)  BY DEF TrashTypeOK, ReqOK, Named, NamedReqs
  <1>1. UNCHANGED disk => NamedDisk(Of)'  BY NamedStays
  <1>2. CASE ReadTrashDir(r) \/ ReadTrashRows(r) \/ Reconciled(r)
    BY <1>1, <1>2, NamedRead
    DEF ReadTrashDir, ReadTrashRows, Reconciled, Finish, Idle, NamedLocal, stores
  <1>3. ASSUME l.at = "reconcile", NEW p \in l.backfill, Backfill(r, p) PROVE Named(Of)'
    <2>1. l \in [at : {"reconcile"}, backfill : SUBSET Path, prune : SUBSET Nat]
      BY <1>0, <1>3, LocalShape
    <2>2. NamedLocal(Of, [l EXCEPT !.backfill = @ \ {p}])  BY <2>1 DEF NamedLocal
    <2>3. NamedReqs(Of)'  BY <1>3, <2>2, NamedGoto DEF Backfill, Named
    <2>4. NamedItem(Of, [trash |-> p, original |-> NoPath, hash |-> NoHash])
      BY DEF NamedItem, NamedHash
    <2>5. NamedItems(Of)'  BY <1>3, <2>4, NamedCreate DEF Backfill, Named
    <2> QED  BY <1>1, <1>3, <2>3, <2>5 DEF Backfill, Named, NamedImages
  <1>4. ASSUME l.at = "reconcile", NEW i \in l.prune, Prune(r, i) PROVE Named(Of)'
    <2>1. l \in [at : {"reconcile"}, backfill : SUBSET Path, prune : SUBSET Nat]
      BY <1>0, <1>4, LocalShape
    <2>2. NamedLocal(Of, [l EXCEPT !.prune = @ \ {i}])  BY <2>1 DEF NamedLocal
    <2>3. NamedReqs(Of)'  BY <1>4, <2>2, NamedGoto DEF Prune, Named
    <2>4. NamedItems(Of)'  BY <1>4, NamedDrop DEF Prune, Named
    <2> QED  BY <1>1, <1>4, <2>3, <2>4 DEF Prune, Named, NamedImages
  <1> QED  BY <1>2, <1>3, <1>4 DEF ListStep

LEMMA NamedRestore ==
    ASSUME NEW Of, TrashTypeOK, Named(Of), NEW r \in Requests, RestoreStep(r)
    PROVE  Named(Of)'
  <1> DEFINE l == req[r]
  <1>0. l \in Local /\ NamedLocal(Of, l)  BY DEF TrashTypeOK, ReqOK, Named, NamedReqs
  <1>1. UNCHANGED disk => NamedDisk(Of)'  BY NamedStays
  <1>2. NamedLocal(Of, Idle)  BY DEF NamedLocal, Idle
  <1>3. ASSUME NEW i \in DOMAIN items, LoadForRestore(r, i) PROVE Named(Of)'
    <2>1. NamedLocal(Of, [at |-> "target", id |-> i, item |-> items[i]])
      BY <1>3 DEF LoadForRestore, NamedLocal, Named, NamedItems, NamedItem
    <2> QED  BY <1>1, <1>3, <2>1, NamedRead DEF LoadForRestore, stores
  <1>4. CASE ChooseTarget(r)
    <2>1. l \in [at : {"target"}, id : Nat,
                 item : [trash : Path, original : Path, hash : MaybeHash]] /\ l.at = "target"
      BY <1>0, <1>4, LocalShape DEF ChooseTarget
    <2> DEFINE dst == IF l.item.original \in DOMAIN disk
                      THEN InTagged(Cwd, l.item.trash, "restored", clock)
                      ELSE l.item.original
               next == [at |-> "restore", id |-> l.id, src |-> l.item.trash,
                        dst |-> dst, hash |-> l.item.hash]
    <2>2. clock \in Nat /\ "restored" \in TagKinds  BY DEF TrashTypeOK, EnvOK, TagKinds
    <2>3. SameStem(l.item.trash, InTagged(Cwd, l.item.trash, "restored", clock))
      BY <2>1, <2>2, TagTyped DEF SameStem
    <2>4. From(l.item.original, l.item.trash) /\ NamedHash(Of, l.item.hash, l.item.trash)
      BY <1>0, <2>1 DEF NamedLocal
    <2>5. SameStem(l.item.trash, dst)  BY <2>3, <2>4 DEF From, SameStem
    <2>6. NamedLocal(Of, next)  BY <2>4, <2>5 DEF NamedLocal
    <2>7. CASE l.item.trash \in DOMAIN disk
      BY <1>1, <1>4, <2>6, <2>7, NamedRead DEF ChooseTarget, stores
    <2>8. CASE l.item.trash \notin DOMAIN disk
      BY <1>1, <1>2, <1>4, <2>8, NamedRead DEF ChooseTarget, Finish, stores
    <2> QED  BY <2>7, <2>8
  <1>5. CASE RestoreMove(r)
    <2>1. l \in [at : {"restore", "relist"}, id : Nat, src : Path, dst : Path,
                 hash : MaybeHash] /\ l.at = "restore"
      BY <1>0, <1>5, LocalShape DEF RestoreMove
    <2>2. SameStem(l.src, l.dst)  BY <1>0, <2>1 DEF NamedLocal
    <2>3. NamedDisk(Of)'  BY <1>5, <2>2, NamedMove DEF RestoreMove
    <2>4. NamedLocal(Of, [l EXCEPT !.at = "relist"])  BY <1>0, <2>1 DEF NamedLocal
    <2> QED  BY <1>2, <1>5, <2>3, <2>4, NamedRead DEF RestoreMove, Finish
  <1>6. CASE Relist(r)
    <2> DEFINE hash == IF l.hash = NoHash /\ l.dst \in DOMAIN disk THEN disk[l.dst] ELSE l.hash
    <2>1. SameStem(l.src, l.dst) /\ NamedHash(Of, l.hash, l.src)
      BY <1>0, <1>6 DEF NamedLocal, Relist
    <2>2. NamedHash(Of, hash, l.dst)
      BY <2>1 DEF NamedHash, SameStem, Named, NamedDisk
    <2>3. images' = images \/ images' = With(images, l.dst, hash)  BY <1>6 DEF Relist
    <2> HIDE DEF hash
    <2>4. NamedImages(Of)'  BY <2>2, <2>3 DEF With, Named, NamedImages
    <2>5. NamedLocal(Of, [at |-> "dropitem", id |-> l.id])  BY DEF NamedLocal
    <2>6. NamedReqs(Of)'  BY <1>6, <2>5, NamedGoto DEF Relist, Named
    <2> QED  BY <1>1, <1>6, <2>4, <2>6 DEF Relist, Named, NamedItems
  <1>7. CASE DropItem(r)
    <2>1. NamedReqs(Of)'  BY <1>2, <1>7, NamedGoto DEF DropItem, Finish, Named
    <2>2. NamedItems(Of)'  BY <1>7, NamedDrop DEF DropItem, Named
    <2> QED  BY <1>1, <1>7, <2>1, <2>2 DEF DropItem, Named, NamedImages
  <1> QED  BY <1>3, <1>4, <1>5, <1>6, <1>7 DEF RestoreStep

LEMMA NamedPurge ==
    ASSUME NEW Of, TrashTypeOK, Named(Of), NEW r \in Requests, PurgeStep(r)
    PROVE  Named(Of)'
  <1> DEFINE l == req[r]
  <1>0. l \in Local /\ NamedLocal(Of, l)  BY DEF TrashTypeOK, ReqOK, Named, NamedReqs
  <1>1. UNCHANGED disk => NamedDisk(Of)'  BY NamedStays
  <1>2. NamedLocal(Of, Idle)  BY DEF NamedLocal, Idle
  <1>3. ASSUME NEW i \in DOMAIN items, LoadForDelete(r, i) PROVE Named(Of)'
    <2>1. NamedLocal(Of, [at |-> "purge", id |-> i, src |-> items[i].trash])  BY DEF NamedLocal
    <2> QED  BY <1>1, <1>3, <2>1, NamedRead DEF LoadForDelete, stores
  <1>4. CASE Purge(r)
    <2>1. NamedLocal(Of, [at |-> "dropitem", id |-> l.id])  BY DEF NamedLocal
    <2>2. NamedDisk(Of)'  BY <1>4, NamedStays DEF Purge
    <2> QED  BY <1>2, <1>4, <2>1, <2>2, NamedRead DEF Purge, Finish
  <1>5. CASE ReadForClean(r)
    <2>1. NamedLocal(Of, [at |-> "clean", todo |-> FilesIn(trashDir)])  BY DEF NamedLocal
    <2> QED  BY <1>1, <1>5, <2>1, NamedRead DEF ReadForClean, stores
  <1>6. CASE CleanRows(r)
    <2>1. NamedReqs(Of)'  BY <1>2, <1>6, NamedGoto DEF CleanRows, Finish, Named
    <2>2. NamedItems(Of)'  BY <1>6 DEF CleanRows, NamedItems
    <2> QED  BY <1>1, <1>6, <2>1, <2>2 DEF CleanRows, Named, NamedImages
  <1>7. ASSUME l.at = "clean", NEW p \in l.todo, CleanFile(r, p) PROVE Named(Of)'
    <2>1. l \in [at : {"clean"}, todo : SUBSET Path]  BY <1>0, <1>7, LocalShape
    <2>2. NamedLocal(Of, [l EXCEPT !.todo = @ \ {p}])  BY <2>1 DEF NamedLocal
    <2>3. NamedDisk(Of)'  BY <1>7, NamedStays DEF CleanFile
    <2> QED  BY <1>7, <2>2, <2>3, NamedRead DEF CleanFile
  <1> QED  BY <1>3, <1>4, <1>5, <1>6, <1>7 DEF PurgeStep

LEMMA NamedCarry ==
    ASSUME NEW Of, TrashTypeOK, Named(Of), NEW r \in Requests, MoveStep(r)
    PROVE  Named(Of)'
  <1> DEFINE l == req[r]
  <1>0. l \in Local /\ NamedLocal(Of, l)  BY DEF TrashTypeOK, ReqOK, Named, NamedReqs
  <1>1. UNCHANGED disk => NamedDisk(Of)'  BY NamedStays
  <1>2. NamedLocal(Of, Idle)  BY DEF NamedLocal, Idle
  <1>3. ASSUME NEW p \in DOMAIN images, NEW dir \in Folders, ChooseDestination(r, p, dir)
        PROVE Named(Of)'
    <2>1. NamedLocal(Of, [at |-> "destination", src |-> p, dir |-> dir, n |-> 0])  BY DEF NamedLocal
    <2> QED  BY <1>1, <1>3, <2>1, NamedRead DEF ChooseDestination, stores
  <1>6. CASE TryDestination(r)
    <2>1. PICK m \in Local : /\ Goto(r, m)
                             /\ \/ m.at = "destination"
                                \/ m.at = "carry" /\ m.dst.name.stem = m.src.name.stem
      BY <1>6, TryTyped DEF TrashTypeOK, ReqOK
    <2>2. NamedLocal(Of, m)  BY <2>1 DEF NamedLocal, SameStem
    <2> QED  BY <1>1, <1>6, <2>1, <2>2, NamedRead DEF TryDestination, stores
  <1>4. CASE Carry(r)
    <2>1. l \in [at : {"carry", "repath"}, src : Path, dst : Path] /\ l.at = "carry"
      BY <1>0, <1>4, LocalShape DEF Carry
    <2>2. SameStem(l.src, l.dst)  BY <1>0, <2>1 DEF NamedLocal
    <2>3. NamedDisk(Of)'  BY <1>4, <2>2, NamedMove DEF Carry
    <2>4. NamedLocal(Of, [l EXCEPT !.at = "repath"])  BY <2>1, <2>2 DEF NamedLocal
    <2> QED  BY <1>2, <1>4, <2>3, <2>4, NamedRead DEF Carry, Finish
  <1>5. CASE UpdatePath(r)
    <2>1. SameStem(l.src, l.dst)  BY <1>0, <1>5 DEF NamedLocal, UpdatePath
    <2>2. \/ images' = images
          \/ l.src \in DOMAIN images /\ images' = Renamed(images, l.src, l.dst)
      BY <1>5 DEF UpdatePath
    <2>3. NamedImages(Of)'
      <3>1. \A p \in DOMAIN images' :
              \/ p \in DOMAIN images /\ images'[p] = images[p]
              \/ p = l.dst /\ l.src \in DOMAIN images /\ images'[p] = images[l.src]
        <4>1. CASE images' = images  BY <4>1
        <4>2. CASE l.src \in DOMAIN images /\ images' = Renamed(images, l.src, l.dst)
          BY <4>2, RenamedKeeps
        <4> QED  BY <2>2, <4>1, <4>2
      <3> QED  BY <2>1, <3>1 DEF Named, NamedImages, NamedHash, SameStem
    <2>4. NamedReqs(Of)'  BY <1>2, <1>5, NamedGoto DEF UpdatePath, Finish, Named
    <2> QED  BY <1>1, <1>5, <2>3, <2>4 DEF UpdatePath, Named, NamedItems
  <1> QED  BY <1>3, <1>4, <1>5, <1>6 DEF MoveStep

LEMMA NamedKept ==
    ASSUME NEW Of, TrashTypeOK, Named(Of), [TrashNext]_trashVars
    PROVE  Named(Of)'
  <1>1. CASE Environment \/ UNCHANGED trashVars
    <2>1. UNCHANGED <<disk, images, items>>
      BY <1>1 DEF Environment, Tick, Crash, SetTrashDir, stores, trashVars
    <2>2. UNCHANGED req \/ req' = [r \in Requests |-> Idle]
      BY <1>1 DEF Environment, Tick, Crash, SetTrashDir, stores, trashVars
    <2>3. NamedReqs(Of)'
      <3>1. NamedLocal(Of, Idle)  BY DEF NamedLocal, Idle
      <3>2. \A r \in Requests : NamedLocal(Of, req'[r])  BY <2>2, <3>1 DEF Named, NamedReqs
      <3> QED  BY <3>2 DEF NamedReqs
    <2> QED  BY <2>1, <2>3 DEF Named, NamedDisk, NamedImages, NamedItems
  <1> QED  BY <1>1, NamedDelete, NamedList, NamedRestore, NamedPurge, NamedCarry DEF TrashNext

\* Any assignment will do to know that names are kept; one content to a stem
\* is what tells photos apart.
AnyNames == \E Of : Named(Of)
OneContent(Of) == \A s \in Stems : \A c, d \in Of[s] : c = d
SomeNames == \E Of : OneContent(Of) /\ Named(Of)

LEMMA InitAnyNames == TrashInit => AnyNames
  <1> SUFFICES ASSUME TrashInit PROVE AnyNames  OBVIOUS
  <1> DEFINE Of == [s \in Stems |-> Contents]
  <1>1. \A p \in DOMAIN disk : disk[p] \in Contents /\ p.name.stem \in Stems
    BY InitialDisksAreGalleries DEF TrashInit, Name
  <1>2. NamedDisk(Of)  BY <1>1 DEF NamedDisk
  <1> HIDE DEF Of
  <1>3. NamedImages(Of)  BY <1>2 DEF NamedDisk, NamedImages, NamedHash, TrashInit
  <1>4. NamedItems(Of)  BY DEF NamedItems, TrashInit
  <1>5. NamedReqs(Of)  BY DEF NamedReqs, NamedLocal, TrashInit, Idle
  <1> QED  BY <1>2, <1>3, <1>4, <1>5 DEF AnyNames, Named

LEMMA InitNamed == TrashScenarioInit /\ NamesTell => SomeNames
  <1> SUFFICES ASSUME TrashScenarioInit, NamesTell PROVE SomeNames  OBVIOUS
  <1> DEFINE Of == [s \in Stems |-> {disk[p] : p \in {q \in DOMAIN disk : q.name.stem = s}}]
  <1>1. \A p \in DOMAIN disk : p.name.stem \in Stems
    BY InitialDisksAreGalleries DEF TrashScenarioInit, TrashInit, Name
  <1>2. NamedDisk(Of)  BY <1>1 DEF NamedDisk
  <1>3. OneContent(Of)  BY DEF OneContent, TrashScenarioInit, NamesTell, SameStem
  <1> HIDE DEF Of
  <1>4. NamedImages(Of)  BY <1>2 DEF NamedDisk, NamedImages, NamedHash, TrashScenarioInit, TrashInit
  <1>5. NamedItems(Of)  BY DEF NamedItems, TrashScenarioInit, TrashInit
  <1>6. NamedReqs(Of)  BY DEF NamedReqs, NamedLocal, TrashScenarioInit, TrashInit, Idle
  <1> QED  BY <1>2, <1>3, <1>4, <1>5, <1>6 DEF SomeNames, Named

LEMMA NamesKept ==
    ASSUME TrashTypeOK, [TrashNext]_trashVars
    PROVE  (AnyNames => AnyNames') /\ (SomeNames => SomeNames')
  <1>1. ASSUME AnyNames PROVE AnyNames'
    <2>1. PICK Of : Named(Of)  BY <1>1 DEF AnyNames
    <2>2. Named(Of)'  BY <2>1, NamedKept
    <2> QED  BY <2>2 DEF AnyNames
  <1>2. ASSUME SomeNames PROVE SomeNames'
    <2>1. PICK Of : OneContent(Of) /\ Named(Of)  BY <1>2 DEF SomeNames
    <2>2. Named(Of)'  BY <2>1, NamedKept
    <2> QED  BY <2>1, <2>2 DEF SomeNames
  <1> QED  BY <1>1, <1>2

LEMMA NamesDescribe == TrashTypeOK /\ SomeNames => ItemDescribesItsFile
  <1> SUFFICES ASSUME TrashTypeOK, SomeNames, NEW i \in DOMAIN items,
                      items[i].trash \in DOMAIN disk, items[i].hash # NoHash
               PROVE  items[i].hash = disk[items[i].trash]
    BY DEF ItemDescribesItsFile
  <1>1. PICK Of : OneContent(Of) /\ Named(Of)  BY DEF SomeNames
  <1>2. items[i].trash.name.stem \in Stems
    BY DEF TrashTypeOK, ItemsOK, TrashItem, Path, Name
  <1>3. /\ disk[items[i].trash] \in Of[items[i].trash.name.stem]
        /\ items[i].hash \in Of[items[i].trash.name.stem]
    BY <1>1 DEF Named, NamedDisk, NamedItems, NamedItem, NamedHash
  <1> QED  BY <1>1, <1>2, <1>3 DEF OneContent

-------------------------------------------------------------------------------
(* trash_items: finitely many rows, no two of one file, none with the next *)
(* primary key                                                             *)

RowsUnique ==
    /\ IsFiniteSet(DOMAIN items)
    /\ \A i, j \in DOMAIN items : items[i].trash = items[j].trash => i = j
    /\ \A i \in DOMAIN items : i < nextId

LEMMA ItemsMove ==
    ASSUME [TrashNext]_trashVars
    PROVE  \/ UNCHANGED <<items, nextId>>
           \/ \E item : CreateItem(item)
           \/ UNCHANGED nextId /\ \E S : items' = Lacking(items, S)
           \/ UNCHANGED nextId /\ items' = <<>>
  <1> DEFINE Moved == \/ UNCHANGED <<items, nextId>>
                      \/ \E item : CreateItem(item)
                      \/ UNCHANGED nextId /\ \E S : items' = Lacking(items, S)
                      \/ UNCHANGED nextId /\ items' = <<>>
  <1> SUFFICES Moved  OBVIOUS
  <1>1. CASE Environment \/ UNCHANGED trashVars
    BY <1>1 DEF Environment, Tick, Crash, SetTrashDir, stores, trashVars
  <1>2. ASSUME NEW r \in Requests, DeleteStep(r) PROVE Moved
    <2>1. CASE RecordTrashItem(r)  BY <2>1 DEF RecordTrashItem
    <2>2. CASE UNCHANGED <<items, nextId>>  BY <2>2
    <2> HIDE DEF Moved
    <2> QED
      BY <1>2, <2>1, <2>2 DEF DeleteStep, DeleteFiles, BatchDelete, DeleteDone, RemoveForGood,
          LookUp, ChooseTrashPath, MoveToTrash, DeleteFromDB, stores
  <1>3. ASSUME NEW r \in Requests, ListStep(r) PROVE Moved
    <2>1. ASSUME NEW p, Backfill(r, p) PROVE Moved  BY <2>1 DEF Backfill
    <2>2. ASSUME NEW i, Prune(r, i) PROVE Moved  BY <2>2 DEF Prune
    <2>3. CASE UNCHANGED <<items, nextId>>  BY <2>3
    <2> HIDE DEF Moved
    <2> QED
      BY <1>3, <2>1, <2>2, <2>3 DEF ListStep, ReadTrashDir, ReadTrashRows, Reconciled, stores
  <1>4. ASSUME NEW r \in Requests, RestoreStep(r) PROVE Moved
    <2>1. CASE DropItem(r)  BY <2>1 DEF DropItem
    <2>2. CASE UNCHANGED <<items, nextId>>  BY <2>2
    <2> HIDE DEF Moved
    <2> QED
      BY <1>4, <2>1, <2>2 DEF RestoreStep, LoadForRestore, ChooseTarget, RestoreMove, Relist, stores
  <1>5. ASSUME NEW r \in Requests, PurgeStep(r) PROVE Moved
    BY <1>5 DEF PurgeStep, LoadForDelete, Purge, ReadForClean, CleanRows, CleanFile, stores
  <1>6. ASSUME NEW r \in Requests, MoveStep(r) PROVE Moved
    BY <1>6 DEF MoveStep, ChooseDestination, TryDestination, Carry, UpdatePath, stores
  <1> QED  BY <1>1, <1>2, <1>3, <1>4, <1>5, <1>6 DEF TrashNext

LEMMA UniqueKept == TrashTypeOK /\ RowsUnique /\ [TrashNext]_trashVars => RowsUnique'
  <1> SUFFICES ASSUME TrashTypeOK, RowsUnique, [TrashNext]_trashVars PROVE RowsUnique'  OBVIOUS
  <1>0. nextId \in Nat /\ DOMAIN items \subseteq Nat /\ \A i \in DOMAIN items : i < nextId
    BY DEF TrashTypeOK, ItemsOK, RowsUnique
  <1>1. CASE UNCHANGED <<items, nextId>>  BY <1>1 DEF RowsUnique
  <1>2. ASSUME NEW item, items' = With(items, nextId, item), nextId' = nextId + 1,
               item.trash \notin TrashPaths
        PROVE  RowsUnique'
    <2>1. DOMAIN items' = DOMAIN items \cup {nextId}  BY <1>2 DEF With
    <2>2. IsFiniteSet(DOMAIN items')  BY <2>1, FS_AddElement DEF RowsUnique
    <2>3. /\ items'[nextId] = item
          /\ \A i \in DOMAIN items : i # nextId => items'[i] = items[i]
      BY <1>2 DEF With
    <2>4. \A i \in DOMAIN items : items[i].trash # item.trash  BY <1>2 DEF TrashPaths
    <2>5. \A i, j \in DOMAIN items' : items'[i].trash = items'[j].trash => i = j
      BY <2>1, <2>3, <2>4 DEF RowsUnique
    <2>6. \A i \in DOMAIN items' : i < nextId'  BY <1>0, <1>2, <2>1
    <2> QED  BY <2>2, <2>5, <2>6 DEF RowsUnique
  <1>3. ASSUME NEW S, items' = Lacking(items, S), UNCHANGED nextId PROVE RowsUnique'
    <2>1. DOMAIN items' \subseteq DOMAIN items /\ \A i \in DOMAIN items' : items'[i] = items[i]
      BY <1>3 DEF Lacking
    <2>2. IsFiniteSet(DOMAIN items')  BY <2>1, FS_Subset DEF RowsUnique
    <2> QED  BY <1>3, <2>1, <2>2 DEF RowsUnique
  <1>4. CASE items' = <<>>
    <2>1. DOMAIN items' = {}  BY <1>4
    <2> QED  BY <2>1, FS_EmptySet DEF RowsUnique
  <1> QED  BY <1>1, <1>2, <1>3, <1>4, ItemsMove DEF CreateItem

LEMMA InitUnique == TrashInit => RowsUnique
  <1> SUFFICES ASSUME TrashInit PROVE RowsUnique  OBVIOUS
  <1>1. DOMAIN items = {}  BY DEF TrashInit
  <1> QED  BY <1>1, FS_EmptySet DEF RowsUnique

\* The new row joins the others
LEMMA RowJoins ==
    ASSUME TrashTypeOK, RowsUnique, NEW item, CreateItem(item)
    PROVE  /\ TrashPaths' = TrashPaths \cup {item.trash}
           /\ DOMAIN items \subseteq DOMAIN items'
           /\ \A i \in DOMAIN items : items'[i] = items[i]
           /\ \A i \in DOMAIN items' \ DOMAIN items : items'[i] = item
           /\ \A i, j \in DOMAIN items' \ DOMAIN items : i = j
  <1>1. nextId \notin DOMAIN items
    <2>1. nextId \in Nat  BY DEF TrashTypeOK, ItemsOK
    <2> QED  BY <2>1 DEF RowsUnique
  <1>2. CASE item.trash \in TrashPaths
    BY <1>2 DEF CreateItem, TrashPaths
  <1>3. CASE item.trash \notin TrashPaths
    <2>1. items' = With(items, nextId, item)  BY <1>3 DEF CreateItem
    <2>2. /\ DOMAIN items' = DOMAIN items \cup {nextId} /\ items'[nextId] = item
          /\ \A i \in DOMAIN items : items'[i] = items[i]
      BY <1>1, <2>1 DEF With
    <2>3. TrashPaths' = TrashPaths \cup {item.trash}  BY <2>2 DEF TrashPaths
    <2> QED  BY <2>2, <2>3
  <1> QED  BY <1>2, <1>3

-------------------------------------------------------------------------------
(* One request after the other, and no three photos of a name: nothing is  *)
(* overwritten, so that every hash is the hash of the file it is kept with *)

Pairs == \A p, q, s \in DOMAIN disk :
            SameStem(p, q) /\ SameStem(p, s) => p = q \/ p = s \/ q = s

LEMMA PairsMoved ==
    ASSUME Pairs, NEW src \in DOMAIN disk, NEW dst, SameStem(src, dst),
           DOMAIN disk' = (DOMAIN disk \ {src}) \cup {dst}
    PROVE  Pairs'
  <1> SUFFICES ASSUME NEW p \in DOMAIN disk', NEW q \in DOMAIN disk', NEW s \in DOMAIN disk',
                      SameStem(p, q), SameStem(p, s)
               PROVE  p = q \/ p = s \/ q = s
    BY DEF Pairs, SameStem
  <1> DEFINE was(x) == IF x = dst THEN src ELSE x
  <1>1. \A x \in DOMAIN disk' : was(x) \in DOMAIN disk /\ was(x).name.stem = x.name.stem
    BY DEF SameStem
  <1>2. SameStem(was(p), was(q)) /\ SameStem(was(p), was(s))  BY <1>1 DEF SameStem
  <1>3. was(p) = was(q) \/ was(p) = was(s) \/ was(q) = was(s)  BY <1>1, <1>2 DEF Pairs
  <1>4. \A x, y \in DOMAIN disk' : was(x) = was(y) => x = y
    <2> TAKE x, y \in DOMAIN disk'
    <2>1. CASE x = dst /\ y # dst  BY <2>1
    <2>2. CASE x # dst /\ y = dst  BY <2>2
    <2> QED  BY <2>1, <2>2
  <1> QED  BY <1>3, <1>4

LEMMA PairsShrunk ==
    ASSUME Pairs, DOMAIN disk' \subseteq DOMAIN disk
    PROVE  Pairs'
BY DEF Pairs, SameStem

LEMMA PairsKept ==
    ASSUME TrashTypeOK, AnyNames, Pairs, [TrashNext]_trashVars, ~Refusal
    PROVE  Pairs'
  <1>1. CASE DOMAIN disk' \subseteq DOMAIN disk  BY <1>1, PairsShrunk
  <1>2. CASE UNCHANGED disk  BY <1>1, <1>2
  <1>3. ASSUME NEW p, disk' = Lacking(disk, {p}) PROVE Pairs'  BY <1>1, <1>3 DEF Lacking
  <1>4. ASSUME NEW src, NEW dst, SameStem(src, dst),
               Moves(src, dst) \/ CopiesOnly(src, dst) \/ MoveFails(src, dst)
        PROVE  Pairs'
    BY <1>2, <1>4, GalleryMoves, PairsMoved
  <1>5. CASE Environment \/ UNCHANGED trashVars
    BY <1>2, <1>5 DEF Environment, Tick, Crash, SetTrashDir, stores, trashVars
  <1>6. PICK Of : Named(Of)  BY DEF AnyNames
  <1>7. \A r \in Requests : req[r].at \in {"move", "restore", "carry"} =>
            SameStem(req[r].src, req[r].dst)
    BY <1>6 DEF Named, NamedReqs, NamedLocal
  <1>8. ASSUME NEW r \in Requests, DeleteStep(r) PROVE Pairs'
    <2>1. CASE MoveToTrash(r)  BY <1>4, <1>7, <2>1 DEF MoveToTrash
    <2>2. ASSUME NEW p, RemoveForGood(r, p) PROVE Pairs'
      BY <1>2, <1>3, <2>2 DEF RemoveForGood
    <2> QED
      BY <1>2, <1>8, <2>1, <2>2 DEF DeleteStep, DeleteFiles, BatchDelete, DeleteDone, LookUp,
          ChooseTrashPath, RecordTrashItem, DeleteFromDB, stores
  <1>9. ASSUME NEW r \in Requests, ListStep(r) PROVE Pairs'
    BY <1>2, <1>9 DEF ListStep, ReadTrashDir, ReadTrashRows, Reconciled, Backfill, Prune, stores
  <1>10. ASSUME NEW r \in Requests, RestoreStep(r) PROVE Pairs'
    <2>1. CASE RestoreMove(r)  BY <1>4, <1>7, <2>1 DEF RestoreMove
    <2> QED
      BY <1>2, <1>10, <2>1 DEF RestoreStep, LoadForRestore, ChooseTarget, Relist, DropItem, stores
  <1>11. ASSUME NEW r \in Requests, PurgeStep(r) PROVE Pairs'
    <2>1. CASE Purge(r)  BY <1>2, <1>3, <2>1 DEF Purge
    <2>2. ASSUME NEW p, CleanFile(r, p) PROVE Pairs'  BY <1>2, <1>3, <2>2 DEF CleanFile
    <2> QED
      BY <1>2, <1>11, <2>1, <2>2 DEF PurgeStep, LoadForDelete, ReadForClean, CleanRows, stores
  <1>12. ASSUME NEW r \in Requests, MoveStep(r) PROVE Pairs'
    <2>1. CASE Carry(r)  BY <1>4, <1>7, <2>1 DEF Carry
    <2> QED  BY <1>2, <1>12, <2>1 DEF MoveStep, ChooseDestination, TryDestination, UpdatePath, stores
  <1> QED  BY <1>5, <1>8, <1>9, <1>10, <1>11, <1>12 DEF TrashNext

\* A path that the program makes of two files' name is that of neither.
LEMMA StampedIsFree ==
    ASSUME TrashTypeOK, Pairs, NEW src \in DOMAIN disk, NEW dir \in TrashDirs, src.dir \notin TrashDirs
    PROVE  TrashPath(dir, src) \notin DOMAIN disk
  <1>1. src \in Path /\ clock \in Nat /\ "stamp" \in TagKinds
    BY DEF TrashTypeOK, DiskOK, EnvOK, TagKinds
  <1>2. CASE In(dir, src) \notin DOMAIN disk  BY <1>2 DEF TrashPath
  <1>3. CASE In(dir, src) \in DOMAIN disk
    <2> DEFINE p == In(dir, src)
               q == InTagged(dir, src, "stamp", clock)
    <2>1. SameStem(src, p) /\ SameStem(src, q)  BY <1>1, TagTyped DEF SameStem
    <2>2. p.dir = dir /\ q.dir = dir /\ p.name = src.name  BY DEF In, InTagged
    <2>3. Len(q.name.tags) = Len(src.name.tags) + 1 /\ Len(src.name.tags) \in Nat
      BY <1>1, TagLengthens
    <2>4. p # src /\ q # src /\ p # q
      <3> HIDE DEF p, q
      <3> QED  BY <2>2, <2>3
    <2>5. q \notin DOMAIN disk  BY <1>3, <2>1, <2>4 DEF Pairs
    <2> QED  BY <1>3, <2>5 DEF TrashPath
  <1> QED  BY <1>2, <1>3

LEMMA TargetIsFree ==
    ASSUME TrashTypeOK, Pairs, NEW trash \in DOMAIN disk, NEW original \in DOMAIN disk,
           trash.dir \in TrashDirs, original.dir \notin TrashDirs, From(original, trash)
    PROVE  InTagged(Cwd, trash, "restored", clock) \notin DOMAIN disk
  <1> DEFINE q == InTagged(Cwd, trash, "restored", clock)
  <1>1. trash \in Path /\ original \in Path /\ clock \in Nat /\ "restored" \in TagKinds
    BY DEF TrashTypeOK, DiskOK, EnvOK, TagKinds
  <1>2. SameStem(trash, q) /\ SameStem(trash, original)  BY <1>1, TagTyped DEF From, SameStem
  <1>3. /\ Len(q.name.tags) = Len(trash.name.tags) + 1
        /\ Len(trash.name.tags) \in Nat /\ Len(original.name.tags) \in Nat
    BY <1>1, TagLengthens
  <1>4. Len(original.name.tags) <= Len(trash.name.tags)  BY DEF From
  <1>5. Len(q.name.tags) # Len(trash.name.tags) /\ Len(q.name.tags) # Len(original.name.tags)
    BY ONLY <1>3, <1>4
  <1>6. q # trash /\ q # original  BY <1>5
  <1>7. trash # original  OBVIOUS
  <1> QED  BY <1>2, <1>6, <1>7 DEF Pairs

Tells(h, p) == p \in DOMAIN disk /\ h # NoHash => h = disk[p]

PairImages == \A p \in DOMAIN images : p \in DOMAIN disk => images[p] = disk[p]
\* The row of which a restore or a deletion has just moved or removed the file
Spent(l, i) == l.at \in {"relist", "dropitem"} /\ l.id = i
PairItems(l) == \A i \in DOMAIN items :
    /\ Tells(items[i].hash, items[i].trash)
    /\ items[i].trash \in DOMAIN disk \/ l.at = "clean" \/ Spent(l, i)
PairHeld(l) ==
    /\ l.at = "rows" => l.onDisk \subseteq DOMAIN disk
    /\ l.at = "reconcile" => l.backfill \subseteq DOMAIN disk
    /\ l.at \in {"choose", "move"} => Tells(l.hash, l.src)
    /\ l.at \in {"move", "restore"} => (l.src \in DOMAIN disk => l.dst \notin DOMAIN disk)
    /\ l.at = "record" => l.dst \in DOMAIN disk /\ Tells(l.hash, l.dst)
    /\ l.at = "target" => l.id \in DOMAIN items /\ l.item = items[l.id]
    /\ l.at = "restore" =>
          l.id \in DOMAIN items /\ l.src = items[l.id].trash /\ l.hash = items[l.id].hash
    /\ l.at = "purge" => l.id \in DOMAIN items /\ l.src = items[l.id].trash
    /\ l.at = "relist" => Tells(l.hash, l.dst) /\ l.dst \notin DOMAIN images
    /\ l.at = "repath" => l.src \in DOMAIN images /\ l.dst \in DOMAIN disk /\ images[l.src] = disk[l.dst]
PairAt(l) == PairImages /\ PairItems(l) /\ PairHeld(l)

\* Steps that only look
LEMMA PairLook ==
    ASSUME NEW r \in Requests, PairAt(req[r]), UNCHANGED <<disk, images, items>>,
           NEW m, req'[r] = m, PairHeld(m),
           req[r].at \notin {"clean", "relist", "dropitem"}
    PROVE  PairAt(req[r])'
  <1>1. PairImages'  BY DEF PairAt, PairImages
  <1>2. PairItems(req[r])'  BY DEF PairAt, PairItems, Tells, Spent
  <1>3. PairHeld(req[r])'  BY DEF PairHeld, Tells
  <1> QED  BY <1>1, <1>2, <1>3 DEF PairAt

\* A move onto a free path, from or to the trash
LEMMA PairMoved ==
    ASSUME TrashTypeOK, NEW l, PairAt(l), NEW src \in DOMAIN disk, NEW dst, dst \notin DOMAIN disk,
           disk' = Renamed(disk, src, dst)
    PROVE  /\ DOMAIN disk' = (DOMAIN disk \ {src}) \cup {dst}
           /\ disk'[dst] = disk[src]
           /\ \A q \in DOMAIN disk \ {src} : disk'[q] = disk[q]
BY DEF Renamed, With, Lacking

LEMMA PairCreate ==
    ASSUME NEW r \in Requests, PairItems(req[r]),
           req[r].at \notin {"clean", "relist", "dropitem"},
           NEW item, CreateItem(item), UNCHANGED disk,
           item.trash \in DOMAIN disk, Tells(item.hash, item.trash)
    PROVE  PairItems(req[r])'
  <1>1. \A i \in DOMAIN items' : \/ items'[i] = item
                                 \/ i \in DOMAIN items /\ items'[i] = items[i]
    BY DEF CreateItem, With
  <1> QED  BY <1>1 DEF PairItems, Tells, Spent

LEMMA PairDelete ==
    ASSUME TrashTypeOK, Placed, AnyNames, Pairs, ~Refusal, NEW r \in Requests, GalleryAt(req[r]),
           PairAt(req[r]), DeleteStep(r)
    PROVE  PairAt(req[r])'
  <1> DEFINE l == req[r]
  <1>0. l \in Local /\ PlacedLocal(l) /\ req \in [Requests -> Local]
    BY DEF TrashTypeOK, ReqOK, Placed, PlacedReqs
  <1>1. PairHeld(Idle) /\ \A S, dir : PairHeld(NextFile(S, dir))
    BY DEF PairHeld, Idle, NextFile
  <1>2. CASE DeleteFiles(r)
    <2>1. PICK S, dir : StartRequest(r, "delete", NextFile(S, dir))  BY <1>2 DEF DeleteFiles
    <2>2. l.at = "idle" /\ req'[r] = NextFile(S, dir)  BY <1>0, <2>1 DEF StartRequest, Idle
    <2> QED  BY <1>1, <1>2, <2>2, PairLook DEF DeleteFiles, stores
  <1>3. CASE BatchDelete(r)
    <2>1. PICK S, dir : StartRequest(r, "batch", NextFile(S, dir))  BY <1>3 DEF BatchDelete
    <2>2. l.at = "idle" /\ req'[r] = NextFile(S, dir)  BY <1>0, <2>1 DEF StartRequest, Idle
    <2> QED  BY <1>1, <1>3, <2>2, PairLook DEF BatchDelete, stores
  <1>4. CASE DeleteDone(r)
    <2>1. req'[r] = Idle /\ l.at = "next"  BY <1>0, <1>4 DEF DeleteDone, Goto, Finish
    <2> QED  BY <1>1, <1>4, <2>1, PairLook DEF DeleteDone, stores
  <1>5. ASSUME l.at = "next", NEW p \in l.todo, LookUp(r, p) PROVE PairAt(req[r])'
    <2> DEFINE m == [at |-> "choose", todo |-> l.todo, dir |-> l.dir, src |-> p, hash |-> Hash(p)]
    <2>1. Tells(Hash(p), p)  BY DEF Tells, Hash, PairAt, PairImages
    <2>2. PairHeld(m)  BY <2>1 DEF PairHeld
    <2>3. req'[r] = m  BY <1>0, <1>5 DEF LookUp, Goto
    <2> HIDE DEF m
    <2> QED  BY <1>5, <2>2, <2>3, PairLook DEF LookUp, stores
  <1>6. CASE ChooseTrashPath(r)
    <2> DEFINE m == [at |-> "move", todo |-> l.todo, dir |-> l.dir, src |-> l.src,
                     hash |-> l.hash, dst |-> TrashPath(l.dir, l.src)]
    <2>1. l \in [at : {"choose"}, todo : SUBSET Path, dir : TrashDirs, src : Path,
                 hash : MaybeHash] /\ l.at = "choose"
      BY <1>0, <1>6, LocalShape DEF ChooseTrashPath
    <2>2. l.src \in DOMAIN disk => TrashPath(l.dir, l.src) \notin DOMAIN disk
      BY <1>0, <2>1, StampedIsFree DEF PlacedLocal
    <2>3. PairHeld(m)  BY <2>1, <2>2 DEF PairHeld, PairAt
    <2>4. req'[r] = m  BY <1>0, <1>6 DEF ChooseTrashPath, Goto
    <2> HIDE DEF m
    <2> QED  BY <1>6, <2>1, <2>3, <2>4, PairLook DEF ChooseTrashPath, stores
  <1>7. ASSUME l.at = "next", NEW p \in l.todo, RemoveForGood(r, p) PROVE PairAt(req[r])'
    <2>1. p.dir \notin TrashDirs  BY <1>0, <1>7 DEF PlacedLocal
    <2>2. CASE p \in DOMAIN disk
      <3>1. req'[r].at = "unlist"  BY <1>0, <1>7, <2>2 DEF RemoveForGood, Goto
      <3>2. /\ DOMAIN disk' = DOMAIN disk \ {p}
            /\ \A q \in DOMAIN disk \ {p} : disk'[q] = disk[q]
        BY <1>7, <2>2 DEF RemoveForGood, Lacking
      <3>3. UNCHANGED <<images, items>>  BY <1>7 DEF RemoveForGood
      <3>4. PairImages'  BY <3>2, <3>3 DEF PairAt, PairImages
      <3>5. \A i \in DOMAIN items : items[i].trash # p  BY <2>1 DEF Placed, PlacedItems
      <3>6. PairItems(req[r])'
        BY <1>7, <3>2, <3>3, <3>5 DEF PairAt, PairItems, Tells, Spent
      <3> QED  BY <3>1, <3>4, <3>6 DEF PairAt, PairHeld
    <2>3. CASE p \notin DOMAIN disk
      <3>1. req'[r] = NextFile(l.todo \ {p}, NoDir) /\ UNCHANGED <<disk, images, items>>
        BY <1>0, <1>7, <2>3 DEF RemoveForGood, Goto
      <3> QED  BY <1>1, <1>7, <3>1, PairLook
    <2> QED  BY <2>2, <2>3
  <1>8. CASE MoveToTrash(r)
    <2>1. l \in [at : {"move", "record"}, todo : SUBSET Path, dir : TrashDirs, src : Path,
                 hash : MaybeHash, dst : Path] /\ l.at = "move"
      BY <1>0, <1>8, LocalShape DEF MoveToTrash
    <2>2. l.src.dir \notin TrashDirs /\ l.dst.dir \in TrashDirs  BY <1>0, <2>1 DEF PlacedLocal
    <2>3. CASE Moves(l.src, l.dst)
      <3>1. req'[r] = [l EXCEPT !.at = "record"]
        BY <1>0, <1>8, <2>3 DEF MoveToTrash, Goto, Moves, CopiesOnly, MoveFails, Refusal, TrashTypeOK, EnvOK
      <3>2. l.src \in DOMAIN disk /\ disk' = Renamed(disk, l.src, l.dst)  BY <2>3 DEF Moves
      <3>3. l.dst \notin DOMAIN disk /\ Tells(l.hash, l.src)  BY <2>1, <3>2 DEF PairAt, PairHeld
      <3>4. /\ DOMAIN disk' = (DOMAIN disk \ {l.src}) \cup {l.dst}
            /\ disk'[l.dst] = disk[l.src]
            /\ \A q \in DOMAIN disk \ {l.src} : disk'[q] = disk[q]
        BY <3>2, <3>3, PairMoved
      <3>5. /\ req'[r].at = "record" /\ req'[r].dst = l.dst /\ req'[r].hash = l.hash
        BY <2>1, <3>1
      <3>6. UNCHANGED <<images, items>>  BY <1>8 DEF MoveToTrash
      <3>7. PairImages'
        BY <2>2, <3>4, <3>6 DEF PairAt, PairImages, Placed, PlacedImages
      <3>8. \A i \in DOMAIN items : items[i].trash # l.src /\ items[i].trash \in DOMAIN disk
        BY <2>1, <2>2 DEF Placed, PlacedItems, PairAt, PairItems, Spent
      <3>9. PairItems(req[r])'  BY <3>3, <3>4, <3>6, <3>8 DEF PairAt, PairItems, Tells
      <3>10. PairHeld(req[r])'  BY <3>2, <3>3, <3>4, <3>5 DEF PairHeld, Tells
      <3> QED  BY <3>7, <3>9, <3>10 DEF PairAt
    <2>4. CASE ~Moves(l.src, l.dst)
      <3>1. UNCHANGED <<disk, images, items>>  BY <1>8, <2>4, GalleryMoves DEF MoveToTrash
      <3>2. req'[r] = NextFile(l.todo \ {l.src}, l.dir)  BY <1>0, <1>8, <2>4 DEF MoveToTrash, Goto
      <3> QED  BY <1>1, <2>1, <3>1, <3>2, PairLook
    <2> QED  BY <2>3, <2>4
  <1>9. CASE RecordTrashItem(r)
    <2> DEFINE m == [at |-> "unlist", todo |-> l.todo, dir |-> l.dir, src |-> l.src]
               item == [trash |-> l.dst, original |-> l.src, hash |-> l.hash]
    <2>0. req'[r] = m /\ m.at = "unlist" /\ CreateItem(item)
      BY <1>0, <1>9 DEF RecordTrashItem, Goto
    <2>1. l.at = "record" /\ UNCHANGED <<disk, images>> /\ req'[r].at = "unlist"
      BY <1>9, <2>0 DEF RecordTrashItem
    <2>2. l.dst \in DOMAIN disk /\ Tells(l.hash, l.dst)  BY <2>1 DEF PairAt, PairHeld
    <2>3. PairItems(l)  BY DEF PairAt
    <2>4. item.trash \in DOMAIN disk /\ Tells(item.hash, item.trash)  BY <2>2
    <2>5. PairItems(req[r])'
      <3> HIDE DEF item, m
      <3> QED  BY <2>0, <2>1, <2>3, <2>4, PairCreate
    <2>6. PairImages'  BY <2>1 DEF PairAt, PairImages
    <2> QED  BY <2>1, <2>5, <2>6 DEF PairAt, PairHeld
  <1>10. CASE DeleteFromDB(r)
    <2>1. l.at = "unlist" /\ UNCHANGED <<disk, items>> /\ req'[r].at = "next"
      BY <1>0, <1>10 DEF DeleteFromDB, Goto, NextFile
    <2>2. PairImages'  BY <1>10, <2>1 DEF DeleteFromDB, Lacking, PairAt, PairImages
    <2>3. PairItems(req[r])'  BY <2>1 DEF PairAt, PairItems, Spent, Tells
    <2> QED  BY <2>1, <2>2, <2>3 DEF PairAt, PairHeld
  <1> QED  BY <1>2, <1>3, <1>4, <1>5, <1>6, <1>7, <1>8, <1>9, <1>10 DEF DeleteStep

LEMMA PairList ==
    ASSUME TrashTypeOK, NEW r \in Requests, PairAt(req[r]), ListStep(r)
    PROVE  PairAt(req[r])'
  <1> DEFINE l == req[r]
  <1>0. l \in Local /\ req \in [Requests -> Local]  BY DEF TrashTypeOK, ReqOK
  <1>1. CASE ReadTrashDir(r)
    <2> DEFINE m == [at |-> "rows", onDisk |-> FilesIn(trashDir)]
    <2>1. l.at = "idle" /\ req'[r] = m  BY <1>0, <1>1 DEF ReadTrashDir, StartRequest, Idle
    <2>2. PairHeld(m)  BY DEF PairHeld, FilesIn
    <2> HIDE DEF m
    <2> QED  BY <1>1, <2>1, <2>2, PairLook DEF ReadTrashDir, stores
  <1>2. CASE ReadTrashRows(r)
    <2> DEFINE m == [at |-> "reconcile", backfill |-> l.onDisk, prune |-> StaleRows(l.onDisk)]
    <2>1. l.at = "rows" /\ req'[r] = m  BY <1>0, <1>2 DEF ReadTrashRows, Goto
    <2>2. PairHeld(m)  BY <2>1 DEF PairHeld, PairAt
    <2> HIDE DEF m
    <2> QED  BY <1>2, <2>1, <2>2, PairLook DEF ReadTrashRows, stores
  <1>3. CASE Reconciled(r)
    <2>1. l.at = "reconcile" /\ req'[r] = Idle  BY <1>0, <1>3 DEF Reconciled, Goto, Finish
    <2>2. PairHeld(Idle)  BY DEF PairHeld, Idle
    <2> QED  BY <1>3, <2>1, <2>2, PairLook DEF Reconciled, stores
  <1>4. ASSUME l.at = "reconcile", NEW p \in l.backfill, Backfill(r, p) PROVE PairAt(req[r])'
    <2> DEFINE m == [l EXCEPT !.backfill = @ \ {p}]
               item == [trash |-> p, original |-> NoPath, hash |-> NoHash]
    <2>1. l \in [at : {"reconcile"}, backfill : SUBSET Path, prune : SUBSET Nat]
      BY <1>0, <1>4, LocalShape
    <2>2. req'[r] = m /\ CreateItem(item) /\ UNCHANGED <<disk, images>>
      BY <1>0, <1>4 DEF Backfill, Goto
    <2>3. m.at = "reconcile" /\ m.backfill = l.backfill \ {p}  BY <2>1
    <2>4. l.backfill \subseteq DOMAIN disk  BY <1>4 DEF PairAt, PairHeld
    <2>5. item.trash \in DOMAIN disk /\ Tells(item.hash, item.trash)
      BY <2>4 DEF Tells
    <2>6. PairItems(req[r])'
      <3> HIDE DEF item, m
      <3> QED  BY <1>4, <2>2, <2>5, PairCreate DEF PairAt
    <2>7. PairImages'  BY <2>2 DEF PairAt, PairImages
    <2>8. PairHeld(req[r])'  BY <2>2, <2>3, <2>4 DEF PairHeld
    <2> QED  BY <2>6, <2>7, <2>8 DEF PairAt
  <1>5. ASSUME l.at = "reconcile", NEW i \in l.prune, Prune(r, i) PROVE PairAt(req[r])'
    <2> DEFINE m == [l EXCEPT !.prune = @ \ {i}]
    <2>1. l \in [at : {"reconcile"}, backfill : SUBSET Path, prune : SUBSET Nat]
      BY <1>0, <1>5, LocalShape
    <2>2. req'[r] = m /\ items' = Lacking(items, {i}) /\ UNCHANGED <<disk, images>>
      BY <1>0, <1>5 DEF Prune, Goto
    <2>3. m.at = "reconcile" /\ m.backfill = l.backfill  BY <2>1
    <2>4. PairItems(req[r])'
      BY <1>5, <2>2, <2>3 DEF Lacking, PairAt, PairItems, Spent, Tells
    <2>5. PairImages'  BY <2>2 DEF PairAt, PairImages
    <2>6. PairHeld(req[r])'  BY <1>5, <2>2, <2>3 DEF PairHeld, PairAt
    <2> QED  BY <2>4, <2>5, <2>6 DEF PairAt
  <1> QED  BY <1>1, <1>2, <1>3, <1>4, <1>5 DEF ListStep

LEMMA PairRestore ==
    ASSUME TrashTypeOK, Placed, AnyNames, Pairs, RowsUnique, ~Refusal, NEW r \in Requests,
           GalleryAt(req[r]), PairAt(req[r]), RestoreStep(r)
    PROVE  PairAt(req[r])'
  <1> DEFINE l == req[r]
  <1>0. l \in Local /\ PlacedLocal(l) /\ req \in [Requests -> Local]
    BY DEF TrashTypeOK, ReqOK, Placed, PlacedReqs
  <1>1. PairHeld(Idle)  BY DEF PairHeld, Idle
  <1>2. PICK Of : Named(Of)  BY DEF AnyNames
  <1>3. ASSUME NEW i \in DOMAIN items, LoadForRestore(r, i) PROVE PairAt(req[r])'
    <2> DEFINE m == [at |-> "target", id |-> i, item |-> items[i]]
    <2>1. l.at = "idle" /\ req'[r] = m  BY <1>0, <1>3 DEF LoadForRestore, StartRequest, Idle
    <2>2. PairHeld(m)  BY DEF PairHeld
    <2> HIDE DEF m
    <2> QED  BY <1>3, <2>1, <2>2, PairLook DEF LoadForRestore, stores
  <1>4. CASE ChooseTarget(r)
    <2>1. l \in [at : {"target"}, id : Nat,
                 item : [trash : Path, original : Path, hash : MaybeHash]] /\ l.at = "target"
      BY <1>0, <1>4, LocalShape DEF ChooseTarget
    <2> DEFINE dst == IF l.item.original \in DOMAIN disk
                      THEN InTagged(Cwd, l.item.trash, "restored", clock)
                      ELSE l.item.original
               m == [at |-> "restore", id |-> l.id, src |-> l.item.trash,
                     dst |-> dst, hash |-> l.item.hash]
    <2>2. l.id \in DOMAIN items /\ l.item = items[l.id]  BY <2>1 DEF PairAt, PairHeld
    <2>3. /\ l.item.trash.dir \in TrashDirs /\ l.item.original.dir \notin TrashDirs
          /\ From(l.item.original, l.item.trash)
      BY <1>0, <1>2, <2>1 DEF PlacedLocal, Named, NamedReqs, NamedLocal
    <2>4. l.item.trash \in DOMAIN disk => dst \notin DOMAIN disk
      BY <2>3, TargetIsFree
    <2>5. PairHeld(m)  BY <2>2, <2>4 DEF PairHeld
    <2>6. UNCHANGED <<disk, images, items>>  BY <1>4 DEF ChooseTarget, stores
    <2>7. req'[r] \in {m, Idle}  BY <1>0, <1>4 DEF ChooseTarget, Goto, Finish
    <2> HIDE DEF m
    <2> QED  BY <1>1, <2>1, <2>5, <2>6, <2>7, PairLook
  <1>5. CASE RestoreMove(r)
    <2>1. l \in [at : {"restore", "relist"}, id : Nat, src : Path, dst : Path,
                 hash : MaybeHash] /\ l.at = "restore"
      BY <1>0, <1>5, LocalShape DEF RestoreMove
    <2>2. l.src.dir \in TrashDirs /\ l.dst.dir \notin TrashDirs  BY <1>0, <2>1 DEF PlacedLocal
    <2>3. l.id \in DOMAIN items /\ l.src = items[l.id].trash /\ l.hash = items[l.id].hash
      BY <2>1 DEF PairAt, PairHeld
    <2>4. CASE Moves(l.src, l.dst)
      <3>1. req'[r] = [l EXCEPT !.at = "relist"]
        BY <1>0, <1>5, <2>4 DEF RestoreMove, Goto, Moves, MoveFails, Refusal, TrashTypeOK, EnvOK
      <3>2. l.src \in DOMAIN disk /\ disk' = Renamed(disk, l.src, l.dst)  BY <2>4 DEF Moves
      <3>3. l.dst \notin DOMAIN disk  BY <2>1, <3>2 DEF PairAt, PairHeld
      <3>4. /\ DOMAIN disk' = (DOMAIN disk \ {l.src}) \cup {l.dst}
            /\ disk'[l.dst] = disk[l.src]
            /\ \A q \in DOMAIN disk \ {l.src} : disk'[q] = disk[q]
        BY <3>2, <3>3, PairMoved
      <3>5. /\ req'[r].at = "relist" /\ req'[r].dst = l.dst /\ req'[r].hash = l.hash
            /\ req'[r].id = l.id
        BY <2>1, <3>1
      <3>6. UNCHANGED <<images, items>>  BY <1>5 DEF RestoreMove
      <3>7. l.dst \notin DOMAIN images
        <4>1. DOMAIN images = GalleryFilesOnDisk  BY <2>1 DEF GalleryAt
        <4> QED  BY <3>3, <4>1 DEF GalleryFilesOnDisk
      <3>8. PairImages'
        BY <2>2, <3>4, <3>6, <3>7 DEF PairAt, PairImages, Placed, PlacedImages
      <3>9. \A i \in DOMAIN items : /\ items[i].trash # l.dst /\ items[i].trash \in DOMAIN disk
                                    /\ i # l.id => items[i].trash # l.src
        BY <2>1, <2>2, <2>3 DEF Placed, PlacedItems, PairAt, PairItems, Spent, RowsUnique
      <3>10. PairItems(req[r])'
        BY <3>4, <3>5, <3>6, <3>9 DEF PairAt, PairItems, Tells, Spent
      <3>11. Tells(l.hash, l.src)  BY <2>3 DEF PairAt, PairItems
      <3>12. PairHeld(req[r])'  BY <3>2, <3>4, <3>5, <3>6, <3>7, <3>11 DEF PairHeld, Tells
      <3> QED  BY <3>8, <3>10, <3>12 DEF PairAt
    <2>5. CASE ~Moves(l.src, l.dst)
      <3>1. UNCHANGED <<disk, images, items>> /\ l.src \notin DOMAIN disk
        BY <1>5, <2>5, GalleryMoves DEF RestoreMove
      <3>2. req'[r] = Idle
        BY <1>0, <1>5, <2>5, <3>1 DEF RestoreMove, Goto, Finish, CopiesOnly
      <3> QED  BY <1>1, <2>1, <3>1, <3>2, PairLook
    <2> QED  BY <2>4, <2>5
  <1>6. CASE Relist(r)
    <2> DEFINE hash == IF l.hash = NoHash /\ l.dst \in DOMAIN disk THEN disk[l.dst] ELSE l.hash
    <2>0. l.at = "relist"  BY <1>6 DEF Relist
    <2>1. l.dst \in DOMAIN disk /\ l.dst \notin DOMAIN images /\ Tells(l.hash, l.dst)
      <3>1. DOMAIN images \cup {l.dst} = GalleryFilesOnDisk  BY <2>0 DEF GalleryAt
      <3>2. l.dst \in DOMAIN disk  BY <3>1 DEF GalleryFilesOnDisk
      <3> QED  BY <2>0, <3>2 DEF PairAt, PairHeld
    <2>2. hash = disk[l.dst]  BY <2>1 DEF Tells
    <2>3. images' = With(images, l.dst, hash) /\ UNCHANGED <<disk, items>>
      BY <1>6, <2>1 DEF Relist
    <2> HIDE DEF hash
    <2>4. PairImages'  BY <2>2, <2>3 DEF With, PairAt, PairImages
    <2>5. req'[r] = [at |-> "dropitem", id |-> l.id]  BY <1>0, <1>6 DEF Relist, Goto
    <2>6. PairItems(req[r])'  BY <2>0, <2>3, <2>5 DEF PairAt, PairItems, Tells, Spent
    <2>7. PairHeld(req[r])'  BY <2>5 DEF PairHeld
    <2> QED  BY <2>4, <2>6, <2>7 DEF PairAt
  <1>7. CASE DropItem(r)
    <2>1. /\ l.at = "dropitem" /\ req'[r] = Idle /\ UNCHANGED <<disk, images>>
          /\ items' = Lacking(items, {l.id})
      BY <1>0, <1>7 DEF DropItem, Goto, Finish
    <2>2. PairItems(req[r])'  BY <2>1 DEF Lacking, PairAt, PairItems, Tells, Spent
    <2>3. PairImages' /\ PairHeld(req[r])'  BY <2>1 DEF Idle, PairAt, PairImages, PairHeld
    <2> QED  BY <2>2, <2>3 DEF PairAt
  <1> QED  BY <1>3, <1>4, <1>5, <1>6, <1>7 DEF RestoreStep

\* A file of the trash goes for good
LEMMA PairShrunk ==
    ASSUME TrashTypeOK, Placed, NEW r \in Requests, PairAt(req[r]), NEW p, p.dir \in TrashDirs,
           disk' = Lacking(disk, {p}), UNCHANGED <<images, items>>
    PROVE  /\ PairImages'
           /\ \A i \in DOMAIN items' : Tells(items[i].hash, items[i].trash)'
           /\ \A i \in DOMAIN items' : items[i].trash # p /\ items[i].trash \in DOMAIN disk
                => items'[i].trash \in DOMAIN disk'
  <1>1. /\ DOMAIN disk' = DOMAIN disk \ {p}
        /\ \A q \in DOMAIN disk \ {p} : disk'[q] = disk[q]
    BY DEF Lacking
  <1>2. PairImages'  BY <1>1 DEF PairAt, PairImages
  <1>3. \A i \in DOMAIN items' : Tells(items[i].hash, items[i].trash)'
    BY <1>1 DEF PairAt, PairItems, Tells
  <1> QED  BY <1>1, <1>2, <1>3

LEMMA PairPurge ==
    ASSUME TrashTypeOK, Placed, RowsUnique, ~Refusal, NEW r \in Requests, PairAt(req[r]), PurgeStep(r)
    PROVE  PairAt(req[r])'
  <1> DEFINE l == req[r]
  <1>0. l \in Local /\ PlacedLocal(l) /\ req \in [Requests -> Local]
    BY DEF TrashTypeOK, ReqOK, Placed, PlacedReqs
  <1>1. PairHeld(Idle)  BY DEF PairHeld, Idle
  <1>2. ASSUME NEW i \in DOMAIN items, LoadForDelete(r, i) PROVE PairAt(req[r])'
    <2> DEFINE m == [at |-> "purge", id |-> i, src |-> items[i].trash]
    <2>1. l.at = "idle" /\ req'[r] = m  BY <1>0, <1>2 DEF LoadForDelete, StartRequest, Idle
    <2>2. PairHeld(m)  BY DEF PairHeld
    <2> HIDE DEF m
    <2> QED  BY <1>2, <2>1, <2>2, PairLook DEF LoadForDelete, stores
  <1>3. CASE Purge(r)
    <2>1. l.src.dir \in TrashDirs /\ l.at = "purge"  BY <1>0, <1>3 DEF Purge, PlacedLocal
    <2>2. l.id \in DOMAIN items /\ l.src = items[l.id].trash  BY <2>1 DEF PairAt, PairHeld
    <2>3. CASE UNCHANGED disk /\ req'[r] = Idle
      BY <1>1, <1>3, <2>1, <2>3, PairLook DEF Purge
    <2>4. CASE /\ disk' = Lacking(disk, {l.src})
               /\ req'[r] = [at |-> "dropitem", id |-> l.id]
      <3>1. UNCHANGED <<images, items>>  BY <1>3 DEF Purge
      <3>2. /\ PairImages'
            /\ \A i \in DOMAIN items' : Tells(items[i].hash, items[i].trash)'
            /\ \A i \in DOMAIN items' : items[i].trash # l.src /\ items[i].trash \in DOMAIN disk
                => items'[i].trash \in DOMAIN disk'
        BY <2>1, <2>4, <3>1, PairShrunk
      <3>3. \A i \in DOMAIN items : items[i].trash \in DOMAIN disk
                                    /\ (i # l.id => items[i].trash # l.src)
        BY <2>1, <2>2 DEF PairAt, PairItems, Spent, RowsUnique
      <3>4. PairItems(req[r])'
        <4>1. req'[r].at = "dropitem" /\ req'[r].id = l.id  BY <2>4
        <4>2. \A i \in DOMAIN items' : items'[i].trash \in DOMAIN disk' \/ i = l.id
          BY <3>1, <3>2, <3>3
        <4> QED  BY <3>2, <4>1, <4>2 DEF PairItems, Spent
      <3>5. PairHeld(req[r])'  BY <2>4 DEF PairHeld
      <3> QED  BY <3>2, <3>4, <3>5 DEF PairAt
    <2> QED  BY <1>0, <1>3, <2>3, <2>4 DEF Purge, Goto, Finish
  <1>4. CASE ReadForClean(r)
    <2>1. l.at = "idle" /\ req'[r] = [at |-> "clean", todo |-> FilesIn(trashDir)]
      BY <1>0, <1>4 DEF ReadForClean, StartRequest, Idle
    <2>2. PairHeld([at |-> "clean", todo |-> FilesIn(trashDir)])  BY DEF PairHeld
    <2> QED  BY <1>4, <2>1, <2>2, PairLook DEF ReadForClean, stores
  <1>5. CASE CleanRows(r)
    <2>1. req'[r] = Idle /\ items' = <<>> /\ UNCHANGED <<disk, images>>
      BY <1>0, <1>5 DEF CleanRows, Goto, Finish
    <2>2. DOMAIN items' = {}  BY <2>1
    <2> QED  BY <1>1, <2>1, <2>2 DEF PairAt, PairImages, PairItems, PairHeld, Idle
  <1>6. ASSUME l.at = "clean", NEW p \in l.todo, CleanFile(r, p) PROVE PairAt(req[r])'
    <2>1. l \in [at : {"clean"}, todo : SUBSET Path]  BY <1>0, <1>6, LocalShape
    <2>2. req'[r] = [l EXCEPT !.todo = @ \ {p}]  BY <1>0, <1>6 DEF CleanFile, Goto
    <2>3. req'[r].at = "clean"  BY <2>1, <2>2
    <2>4. p.dir \in TrashDirs  BY <1>0, <1>6 DEF PlacedLocal
    <2>5. disk' = Lacking(disk, {p}) /\ UNCHANGED <<images, items>>
      BY <1>6 DEF CleanFile
    <2>6. PairImages' /\ \A i \in DOMAIN items' : Tells(items[i].hash, items[i].trash)'
      BY <2>4, <2>5, PairShrunk
    <2>7. PairItems(req[r])'  BY <2>3, <2>6 DEF PairItems
    <2>8. PairHeld(req[r])'  BY <2>3 DEF PairHeld
    <2> QED  BY <2>6, <2>7, <2>8 DEF PairAt
  <1> QED  BY <1>2, <1>3, <1>4, <1>5, <1>6 DEF PurgeStep

LEMMA PairCarry ==
    ASSUME TrashTypeOK, Placed, ~Refusal, NEW r \in Requests, GalleryAt(req[r]), PairAt(req[r]),
           MoveStep(r)
    PROVE  PairAt(req[r])'
  <1> DEFINE l == req[r]
  <1>0. l \in Local /\ PlacedLocal(l) /\ req \in [Requests -> Local]
    BY DEF TrashTypeOK, ReqOK, Placed, PlacedReqs
  <1>1. PairHeld(Idle)  BY DEF PairHeld, Idle
  <1>2. ASSUME NEW p \in DOMAIN images, NEW dir \in Folders, ChooseDestination(r, p, dir)
        PROVE PairAt(req[r])'
    <2> DEFINE m == [at |-> "destination", src |-> p, dir |-> dir, n |-> 0]
    <2>1. l.at = "idle" /\ req'[r] = m  BY <1>0, <1>2 DEF ChooseDestination, StartRequest, Idle
    <2>2. PairHeld(m)  BY DEF PairHeld
    <2> HIDE DEF m
    <2> QED  BY <1>2, <2>1, <2>2, PairLook DEF ChooseDestination, stores
  <1>5. CASE TryDestination(r)
    <2>1. PICK m \in Local : req'[r] = m /\ m.at \in {"destination", "carry"}
      BY <1>0, <1>5, TryTyped
    <2>2. PairHeld(m)  BY <2>1 DEF PairHeld
    <2>3. l.at = "destination" /\ UNCHANGED <<disk, images, items>>
      BY <1>5 DEF TryDestination, stores
    <2> QED  BY <2>1, <2>2, <2>3, PairLook
  <1>3. CASE Carry(r)
    <2>1. l \in [at : {"carry", "repath"}, src : Path, dst : Path] /\ l.at = "carry"
      BY <1>0, <1>3, LocalShape DEF Carry
    <2>2. l.src.dir \notin TrashDirs /\ l.dst.dir \notin TrashDirs  BY <1>0, <2>1 DEF PlacedLocal
    <2>3. DOMAIN images = GalleryFilesOnDisk /\ l.dst \notin DOMAIN disk  BY <2>1 DEF GalleryAt
    <2>4. CASE Moves(l.src, l.dst)
      <3>1. req'[r] = [l EXCEPT !.at = "repath"]
        BY <1>0, <1>3, <2>4 DEF Carry, Goto, Moves, CopiesOnly, MoveFails, Refusal, TrashTypeOK, EnvOK
      <3>2. l.src \in DOMAIN disk /\ disk' = Renamed(disk, l.src, l.dst)  BY <2>4 DEF Moves
      <3>3. /\ DOMAIN disk' = (DOMAIN disk \ {l.src}) \cup {l.dst}
            /\ disk'[l.dst] = disk[l.src]
            /\ \A q \in DOMAIN disk \ {l.src} : disk'[q] = disk[q]
        BY <2>3, <3>2, PairMoved
      <3>4. req'[r].at = "repath" /\ req'[r].src = l.src /\ req'[r].dst = l.dst  BY <2>1, <3>1
      <3>5. UNCHANGED <<images, items>>  BY <1>3 DEF Carry
      <3>6. l.src \in DOMAIN images /\ l.dst \notin DOMAIN images
        BY <2>2, <2>3, <3>2 DEF GalleryFilesOnDisk
      <3>7. PairImages'  BY <3>3, <3>5, <3>6 DEF PairAt, PairImages
      <3>8. \A i \in DOMAIN items : /\ items[i].trash \notin {l.src, l.dst}
                                    /\ items[i].trash \in DOMAIN disk
        BY <2>1, <2>2 DEF Placed, PlacedItems, PairAt, PairItems, Spent
      <3>9. PairItems(req[r])'  BY <3>3, <3>5, <3>8 DEF PairAt, PairItems, Tells
      <3>10. images[l.src] = disk[l.src]  BY <3>2, <3>6 DEF PairAt, PairImages
      <3>11. PairHeld(req[r])'  BY <3>3, <3>4, <3>5, <3>6, <3>10 DEF PairHeld
      <3> QED  BY <3>7, <3>9, <3>11 DEF PairAt
    <2>5. CASE ~Moves(l.src, l.dst)
      <3>1. UNCHANGED <<disk, images, items>>  BY <1>3, <2>5, GalleryMoves DEF Carry
      <3>2. req'[r] = Idle  BY <1>0, <1>3, <2>5 DEF Carry, Goto, Finish
      <3> QED  BY <1>1, <2>1, <3>1, <3>2, PairLook
    <2> QED  BY <2>4, <2>5
  <1>4. CASE UpdatePath(r)
    <2>1. /\ l.at = "repath" /\ req'[r] = Idle /\ UNCHANGED <<disk, items>>
      BY <1>0, <1>4 DEF UpdatePath, Goto, Finish
    <2>2. l.dst \in DOMAIN disk /\ images[l.src] = disk[l.dst]  BY <2>1 DEF PairAt, PairHeld
    <2>3. \A p \in DOMAIN images' :
            \/ p \in DOMAIN images /\ images'[p] = images[p]
            \/ p = l.dst /\ l.src \in DOMAIN images /\ images'[p] = images[l.src]
      BY <1>4 DEF UpdatePath, Renamed, With, Lacking
    <2>4. PairImages'  BY <2>1, <2>2, <2>3 DEF PairAt, PairImages
    <2>5. PairItems(req[r])'  BY <2>1 DEF Idle, PairAt, PairItems, Tells, Spent
    <2>6. PairHeld(req[r])'  BY <2>1 DEF Idle, PairHeld
    <2> QED  BY <2>4, <2>5, <2>6 DEF PairAt
  <1> QED  BY <1>2, <1>3, <1>4, <1>5 DEF MoveStep

PairSerial == \A r \in Requests : Others(r) => PairAt(req[r])

LEMMA PairSerialKept ==
    ASSUME TrashTypeOK, Placed, AnyNames, RowsUnique, Pairs, Alone, OneByOne, Faultless,
           GallerySerial, PairSerial, [TrashScenarioNext]_trashScenarioVars
    PROVE  PairSerial'
  <1>1. CASE UNCHANGED <<disk, images, items, req>>
    BY <1>1 DEF PairSerial, PairAt, PairImages, PairItems, PairHeld, Tells, Spent, Others
  <1>2. CASE UNCHANGED trashScenarioVars  BY <1>1, <1>2 DEF trashScenarioVars, trashVars
  <1>3. ASSUME TrashScenarioNext, Environment PROVE PairSerial'
    <2>1. ~Crash  BY <1>3, NoFaults
    <2> QED  BY <1>1, <1>3, <2>1 DEF Environment, Tick, SetTrashDir, stores
  <1>4. ASSUME TrashScenarioNext, NEW r \in Requests, Step(r) PROVE PairSerial'
    <2>1. Alone'  BY <1>4, AloneNext
    <2>2. /\ Others(r) /\ Others(r)'
          /\ \A q \in Requests \ {r} : Others(q)' => req'[q] = req'[r]
      BY <1>4, <2>1, ActsAlone
    <2>3. ~Refusal  BY <1>4, NoFaults
    <2>4. GalleryAt(req[r]) /\ PairAt(req[r])  BY <2>2 DEF GallerySerial, PairSerial
    <2>5. PairAt(req[r])'
      BY <1>4, <2>3, <2>4, PairDelete, PairList, PairRestore, PairPurge, PairCarry DEF Step
    <2>6. ASSUME NEW q \in Requests, Others(q)' PROVE PairAt(req[q])'
      <3>1. req'[q] = req'[r]  BY <2>2, <2>6
      <3> QED  BY <2>5, <3>1 DEF PairAt, PairItems, PairHeld, Spent, Tells
    <2> QED  BY <2>6 DEF PairSerial
  <1> QED  BY <1>2, <1>3, <1>4 DEF TrashScenarioNext, TrashNext, Step

LEMMA InitPairs ==
    /\ TrashScenarioInit /\ PairsAtMost => Pairs
    /\ TrashInit => PairSerial
  <1>1. ASSUME TrashScenarioInit, PairsAtMost PROVE Pairs
    <2>1. disk \in trashScenario.disks  BY <1>1 DEF TrashScenarioInit
    <2> QED  BY <1>1, <2>1 DEF PairsAtMost, Pairs
  <1>2. ASSUME TrashInit, NEW r \in Requests PROVE PairAt(req[r])
    <2>1. req[r] = Idle /\ DOMAIN items = {} /\ images = disk  BY <1>2 DEF TrashInit
    <2> QED  BY <2>1 DEF PairAt, PairImages, PairItems, PairHeld, Idle
  <1> QED  BY <1>1, <1>2 DEF PairSerial

\* Whoever is at work, the rows tell the truth: one goroutine's view is enough
LEMMA PairsDescribe == Alone /\ PairSerial => ItemDescribesItsFile
  <1> SUFFICES ASSUME Alone, PairSerial PROVE ItemDescribesItsFile  OBVIOUS
  <1>1. PICK r \in Requests : Others(r)  BY SomeoneAlone
  <1>2. PairItems(req[r])  BY <1>1 DEF PairSerial, PairAt
  <1> QED  BY <1>2 DEF PairItems, Tells, ItemDescribesItsFile

-------------------------------------------------------------------------------
(* One request after the other, one trash folder: what is in the trash has *)
(* a row that knows where it came from                                     *)

TrashRows == \A i \in DOMAIN items : items[i].original # NoPath /\ items[i].trash.dir = trashDir
TrashFiles(l) == \A p \in DOMAIN disk : p.dir \in TrashDirs =>
    p.dir = trashDir /\ (p \in TrashPaths \/ (l.at = "record" /\ l.dst = p))
TrashHeld(l) ==
    /\ l.at \in {"next", "choose", "move", "record", "unlist"} => l.dir \in {trashDir, NoDir}
    /\ l.at \in {"move", "record"} => l.dst.dir = trashDir
    /\ l.at = "rows" => l.onDisk = FilesIn(trashDir)
    /\ l.at = "reconcile" =>
          /\ l.backfill \subseteq TrashPaths
          /\ \A i \in l.prune \cap DOMAIN items : items[i].trash \notin DOMAIN disk
    /\ l.at = "target" => l.id \in DOMAIN items /\ l.item = items[l.id]
    /\ l.at \in {"restore", "purge"} => l.id \in DOMAIN items /\ l.src = items[l.id].trash
    /\ l.at \in {"relist", "dropitem"} =>
          \A i \in DOMAIN items : i = l.id => items[i].trash \notin DOMAIN disk
    /\ l.at = "clean" => \A p \in DOMAIN disk : p.dir \in TrashDirs => p \in l.todo
RestorableAt(l) == TrashRows /\ TrashFiles(l) /\ TrashHeld(l)

\* Steps that leave the trash and its rows alone, or take a file out of it
LEMMA TrashStays ==
    ASSUME NEW r \in Requests, RestorableAt(req[r]), UNCHANGED <<items, trashDir>>,
           \A p \in DOMAIN disk' : p.dir \in TrashDirs => p \in DOMAIN disk,
           req[r].at # "record", TrashHeld(req[r])'
    PROVE  RestorableAt(req[r])'
  <1>1. TrashPaths' = TrashPaths  BY DEF TrashPaths
  <1>2. TrashRows'  BY DEF RestorableAt, TrashRows
  <1>3. TrashFiles(req[r])'  BY <1>1 DEF RestorableAt, TrashFiles
  <1> QED  BY <1>2, <1>3 DEF RestorableAt

LEMMA TrashDelete ==
    ASSUME TrashTypeOK, Placed, RowsUnique, ~Refusal, trashDir \in TrashDirs, UNCHANGED trashDir,
           NEW r \in Requests, RestorableAt(req[r]), DeleteStep(r)
    PROVE  RestorableAt(req[r])'
  <1> DEFINE l == req[r]
  <1>0. l \in Local /\ PlacedLocal(l) /\ req \in [Requests -> Local]
    BY DEF TrashTypeOK, ReqOK, Placed, PlacedReqs
  <1>1. CASE DeleteFiles(r)
    <2>1. PICK S, dir : dir \in {trashDir, NoDir} /\ StartRequest(r, "delete", NextFile(S, dir))
      BY <1>1 DEF DeleteFiles
    <2>2. l.at = "idle" /\ req'[r] = NextFile(S, dir)  BY <1>0, <2>1 DEF StartRequest, Idle
    <2>3. TrashHeld(req[r])'  BY <2>1, <2>2 DEF TrashHeld, NextFile
    <2> QED  BY <1>1, <2>2, <2>3, TrashStays DEF DeleteFiles, stores
  <1>2. CASE BatchDelete(r)
    <2>1. PICK S, dir : dir \in {trashDir, NoDir} /\ StartRequest(r, "batch", NextFile(S, dir))
      BY <1>2 DEF BatchDelete
    <2>2. l.at = "idle" /\ req'[r] = NextFile(S, dir)  BY <1>0, <2>1 DEF StartRequest, Idle
    <2>3. TrashHeld(req[r])'  BY <2>1, <2>2 DEF TrashHeld, NextFile
    <2> QED  BY <1>2, <2>2, <2>3, TrashStays DEF BatchDelete, stores
  <1>3. CASE DeleteDone(r)
    <2>1. req'[r] = Idle /\ l.at = "next"  BY <1>0, <1>3 DEF DeleteDone, Goto, Finish
    <2>2. TrashHeld(req[r])'  BY <2>1 DEF TrashHeld, Idle
    <2> QED  BY <1>3, <2>1, <2>2, TrashStays DEF DeleteDone, stores
  <1>4. ASSUME l.at = "next", NEW p \in l.todo, RemoveForGood(r, p)
        PROVE  RestorableAt(req[r])'
    <2>1. \A q \in DOMAIN disk' : q \in DOMAIN disk  BY <1>4 DEF RemoveForGood, Lacking
    <2>2. req'[r] \in {[at |-> "unlist", todo |-> l.todo, dir |-> NoDir, src |-> p],
                       NextFile(l.todo \ {p}, NoDir)}
      BY <1>0, <1>4 DEF RemoveForGood, Goto
    <2>3. TrashHeld(req[r])'  BY <2>1, <2>2 DEF TrashHeld, NextFile
    <2> QED  BY <1>4, <2>1, <2>3, TrashStays DEF RemoveForGood
  <1>5. ASSUME l.at = "next", NEW p \in l.todo, LookUp(r, p)
        PROVE  RestorableAt(req[r])'
    <2>1. req'[r].at = "choose" /\ req'[r].dir = l.dir  BY <1>0, <1>5 DEF LookUp, Goto
    <2>2. TrashHeld(req[r])'  BY <1>5, <2>1 DEF TrashHeld, RestorableAt
    <2> QED  BY <1>5, <2>2, TrashStays DEF LookUp, stores
  <1>6. CASE ChooseTrashPath(r)
    <2>1. l.dir \in TrashDirs /\ l.at = "choose"  BY <1>0, <1>6, LocalShape DEF ChooseTrashPath
    <2>2. l.dir = trashDir  BY <2>1, DirsAreDistinct DEF RestorableAt, TrashHeld
    <2>3. req'[r].at = "move" /\ req'[r].dir = l.dir /\ req'[r].dst = TrashPath(l.dir, l.src)
      BY <1>0, <1>6 DEF ChooseTrashPath, Goto
    <2>4. TrashHeld(req[r])'  BY <2>2, <2>3, TrashPathPlaced DEF TrashHeld
    <2> QED  BY <1>6, <2>1, <2>4, TrashStays DEF ChooseTrashPath, stores
  <1>7. CASE MoveToTrash(r)
    <2>1. l \in [at : {"move", "record"}, todo : SUBSET Path, dir : TrashDirs, src : Path,
                 hash : MaybeHash, dst : Path] /\ l.at = "move"
      BY <1>0, <1>7, LocalShape DEF MoveToTrash
    <2>2. l.dst.dir = trashDir /\ l.dir \in {trashDir, NoDir}
      BY <2>1 DEF RestorableAt, TrashHeld
    <2>3. UNCHANGED items  BY <1>7 DEF MoveToTrash
    <2>4. CASE Moves(l.src, l.dst)
      <3>1. req'[r] = [l EXCEPT !.at = "record"]
        BY <1>0, <1>7, <2>4 DEF MoveToTrash, Goto, Moves, CopiesOnly, MoveFails, Refusal, TrashTypeOK, EnvOK
      <3>2. /\ req'[r].at = "record" /\ req'[r].dst = l.dst /\ req'[r].dir = l.dir
        BY <2>1, <3>1
      <3>3. \A p \in DOMAIN disk' : p \in DOMAIN disk \/ p = l.dst
        BY <2>4 DEF Moves, Renamed, With, Lacking
      <3>4. TrashPaths' = TrashPaths /\ TrashRows'
        BY <2>3 DEF TrashPaths, RestorableAt, TrashRows
      <3>5. TrashFiles(req[r])'  BY <2>1, <2>2, <3>2, <3>3, <3>4 DEF RestorableAt, TrashFiles
      <3>6. TrashHeld(req[r])'  BY <2>2, <3>2 DEF TrashHeld
      <3> QED  BY <3>4, <3>5, <3>6 DEF RestorableAt
    <2>5. CASE ~Moves(l.src, l.dst)
      <3>1. UNCHANGED disk  BY <1>7, <2>5, GalleryMoves DEF MoveToTrash
      <3>2. req'[r] = NextFile(l.todo \ {l.src}, l.dir)  BY <1>0, <1>7, <2>5 DEF MoveToTrash, Goto
      <3>3. TrashHeld(req[r])'  BY <2>2, <3>2 DEF TrashHeld, NextFile
      <3> QED  BY <2>1, <2>3, <3>1, <3>3, TrashStays
    <2> QED  BY <2>4, <2>5
  <1>8. CASE RecordTrashItem(r)
    <2> DEFINE item == [trash |-> l.dst, original |-> l.src, hash |-> l.hash]
    <2>1. l \in [at : {"move", "record"}, todo : SUBSET Path, dir : TrashDirs, src : Path,
                 hash : MaybeHash, dst : Path] /\ l.at = "record"
      BY <1>0, <1>8, LocalShape DEF RecordTrashItem
    <2>2. item.trash = l.dst /\ item.original # NoPath  BY <2>1, NoValuesAreDistinct
    <2>3. l.dst.dir = trashDir /\ l.dir \in {trashDir, NoDir}
      BY <2>1 DEF RestorableAt, TrashHeld
    <2>4. CreateItem(item) /\ UNCHANGED disk  BY <1>8 DEF RecordTrashItem
    <2>5. req'[r].at = "unlist" /\ req'[r].dir = l.dir  BY <1>0, <1>8 DEF RecordTrashItem, Goto
    <2> HIDE DEF item
    <2>6. /\ TrashPaths' = TrashPaths \cup {item.trash}
          /\ \A i \in DOMAIN items' : items'[i] = item \/ (i \in DOMAIN items /\ items'[i] = items[i])
      BY <2>4, RowJoins
    <2>7. TrashRows'  BY <2>2, <2>3, <2>6 DEF RestorableAt, TrashRows
    <2>8. TrashFiles(req[r])'  BY <2>2, <2>4, <2>6 DEF RestorableAt, TrashFiles
    <2>9. TrashHeld(req[r])'  BY <2>3, <2>5 DEF TrashHeld
    <2> QED  BY <2>7, <2>8, <2>9 DEF RestorableAt
  <1>9. CASE DeleteFromDB(r)
    <2>1. l.at = "unlist" /\ req'[r] = NextFile(l.todo \ {l.src}, l.dir)
      BY <1>0, <1>9 DEF DeleteFromDB, Goto
    <2>2. TrashHeld(req[r])'  BY <2>1 DEF TrashHeld, NextFile, RestorableAt
    <2> QED  BY <1>9, <2>1, <2>2, TrashStays DEF DeleteFromDB
  <1> QED  BY <1>1, <1>2, <1>3, <1>4, <1>5, <1>6, <1>7, <1>8, <1>9 DEF DeleteStep

LEMMA TrashList ==
    ASSUME TrashTypeOK, trashDir \in TrashDirs, UNCHANGED trashDir,
           NEW r \in Requests, RestorableAt(req[r]), ListStep(r)
    PROVE  RestorableAt(req[r])'
  <1> DEFINE l == req[r]
  <1>0. l \in Local /\ req \in [Requests -> Local]  BY DEF TrashTypeOK, ReqOK
  <1>1. CASE ReadTrashDir(r)
    <2>1. l.at = "idle" /\ req'[r] = [at |-> "rows", onDisk |-> FilesIn(trashDir)]
      BY <1>0, <1>1 DEF ReadTrashDir, StartRequest, Idle
    <2>2. TrashHeld(req[r])'  BY <1>1, <2>1 DEF TrashHeld, FilesIn, ReadTrashDir, stores
    <2> QED  BY <1>1, <2>1, <2>2, TrashStays DEF ReadTrashDir, stores
  <1>2. CASE ReadTrashRows(r)
    <2>1. /\ l.at = "rows" /\ UNCHANGED <<disk, items>>
          /\ req'[r] = [at |-> "reconcile", backfill |-> l.onDisk, prune |-> StaleRows(l.onDisk)]
      BY <1>0, <1>2 DEF ReadTrashRows, Goto, stores
    <2>2. l.onDisk = FilesIn(trashDir)  BY <2>1 DEF RestorableAt, TrashHeld
    <2>3. l.onDisk \subseteq TrashPaths
      BY <2>1, <2>2 DEF FilesIn, RestorableAt, TrashFiles
    <2>4. \A i \in StaleRows(l.onDisk) \cap DOMAIN items : items[i].trash \notin DOMAIN disk
      BY <2>2 DEF FilesIn, StaleRows, RestorableAt, TrashRows
    <2>5. TrashHeld(req[r])'  BY <2>1, <2>3, <2>4 DEF TrashHeld, TrashPaths
    <2> QED  BY <2>1, <2>5, TrashStays
  <1>3. CASE Reconciled(r)
    <2>1. l.at = "reconcile" /\ req'[r] = Idle  BY <1>0, <1>3 DEF Reconciled, Goto, Finish
    <2>2. TrashHeld(req[r])'  BY <2>1 DEF TrashHeld, Idle
    <2> QED  BY <1>3, <2>1, <2>2, TrashStays DEF Reconciled, stores
  <1>4. ASSUME l.at = "reconcile", NEW p \in l.backfill, Backfill(r, p)
        PROVE  RestorableAt(req[r])'
    <2>1. l \in [at : {"reconcile"}, backfill : SUBSET Path, prune : SUBSET Nat]
      BY <1>0, <1>4, LocalShape
    <2>2. req'[r] = [l EXCEPT !.backfill = @ \ {p}]  BY <1>0, <1>4 DEF Backfill, Goto
    <2>3. req'[r].at = "reconcile" /\ req'[r].backfill = l.backfill \ {p}
          /\ req'[r].prune = l.prune
      BY <2>1, <2>2
    <2>4. /\ l.backfill \subseteq TrashPaths
          /\ \A i \in l.prune \cap DOMAIN items : items[i].trash \notin DOMAIN disk
      BY <1>4 DEF RestorableAt, TrashHeld
    <2>5. UNCHANGED <<disk, items>>  BY <1>4, <2>4 DEF Backfill, CreateItem
    <2>6. TrashHeld(req[r])'  BY <2>3, <2>4, <2>5 DEF TrashHeld, TrashPaths
    <2> QED  BY <1>4, <2>5, <2>6, TrashStays
  <1>5. ASSUME l.at = "reconcile", NEW i \in l.prune, Prune(r, i)
        PROVE  RestorableAt(req[r])'
    <2>1. l \in [at : {"reconcile"}, backfill : SUBSET Path, prune : SUBSET Nat]
      BY <1>0, <1>5, LocalShape
    <2>2. req'[r] = [l EXCEPT !.prune = @ \ {i}]  BY <1>0, <1>5 DEF Prune, Goto
    <2>3. req'[r].at = "reconcile" /\ req'[r].backfill = l.backfill
          /\ req'[r].prune = l.prune \ {i}
      BY <2>1, <2>2
    <2>4. l.backfill = {} /\ UNCHANGED disk /\ items' = Lacking(items, {i})  BY <1>5 DEF Prune
    <2>5. \A j \in l.prune \cap DOMAIN items : items[j].trash \notin DOMAIN disk
      BY <1>5 DEF RestorableAt, TrashHeld
    <2>6. /\ DOMAIN items' = DOMAIN items \ {i}
          /\ \A j \in DOMAIN items' : items'[j] = items[j]
      BY <2>4 DEF Lacking
    <2>7. \A p \in TrashPaths : p \in DOMAIN disk => p \in TrashPaths'
      BY <1>5, <2>5, <2>6 DEF TrashPaths
    <2>8. TrashRows'  BY <2>6 DEF RestorableAt, TrashRows
    <2>9. TrashFiles(req[r])'  BY <1>5, <2>4, <2>7 DEF RestorableAt, TrashFiles
    <2>10. TrashHeld(req[r])'  BY <2>3, <2>4, <2>5, <2>6 DEF TrashHeld
    <2> QED  BY <2>8, <2>9, <2>10 DEF RestorableAt
  <1> QED  BY <1>1, <1>2, <1>3, <1>4, <1>5 DEF ListStep

LEMMA TrashRestore ==
    ASSUME TrashTypeOK, Placed, ~Refusal, trashDir \in TrashDirs, UNCHANGED trashDir,
           NEW r \in Requests, RestorableAt(req[r]), RestoreStep(r)
    PROVE  RestorableAt(req[r])'
  <1> DEFINE l == req[r]
  <1>0. l \in Local /\ PlacedLocal(l) /\ req \in [Requests -> Local]
    BY DEF TrashTypeOK, ReqOK, Placed, PlacedReqs
  <1>1. ASSUME NEW i \in DOMAIN items, LoadForRestore(r, i) PROVE RestorableAt(req[r])'
    <2>1. l.at = "idle" /\ req'[r] = [at |-> "target", id |-> i, item |-> items[i]]
      BY <1>0, <1>1 DEF LoadForRestore, StartRequest, Idle
    <2>2. TrashHeld(req[r])'  BY <1>1, <2>1 DEF TrashHeld, LoadForRestore, stores
    <2> QED  BY <1>1, <2>1, <2>2, TrashStays DEF LoadForRestore, stores
  <1>2. CASE ChooseTarget(r)
    <2>1. l.at = "target" /\ UNCHANGED <<disk, items>>  BY <1>2 DEF ChooseTarget, stores
    <2>2. \/ req'[r] = Idle
          \/ /\ req'[r].at = "restore" /\ req'[r].id = l.id
             /\ req'[r].src = l.item.trash
      BY <1>0, <1>2 DEF ChooseTarget, Goto, Finish
    <2>3. l.id \in DOMAIN items /\ l.item = items[l.id]  BY <2>1 DEF RestorableAt, TrashHeld
    <2>4. TrashHeld(req[r])'  BY <2>1, <2>2, <2>3 DEF TrashHeld, Idle
    <2> QED  BY <2>1, <2>4, TrashStays
  <1>3. CASE RestoreMove(r)
    <2>1. l \in [at : {"restore", "relist"}, id : Nat, src : Path, dst : Path,
                 hash : MaybeHash] /\ l.at = "restore"
      BY <1>0, <1>3, LocalShape DEF RestoreMove
    <2>2. l.src.dir \in TrashDirs /\ l.dst.dir \notin TrashDirs  BY <1>0, <2>1 DEF PlacedLocal
    <2>3. l.id \in DOMAIN items /\ l.src = items[l.id].trash  BY <2>1 DEF RestorableAt, TrashHeld
    <2>4. UNCHANGED items  BY <1>3 DEF RestoreMove
    <2>5. CASE Moves(l.src, l.dst)
      <3>1. req'[r] = [l EXCEPT !.at = "relist"]
        BY <1>0, <1>3, <2>5 DEF RestoreMove, Goto, Moves, MoveFails, Refusal, TrashTypeOK, EnvOK
      <3>2. req'[r].at = "relist" /\ req'[r].id = l.id  BY <2>1, <3>1
      <3>3. DOMAIN disk' = (DOMAIN disk \ {l.src}) \cup {l.dst}
        BY <2>5 DEF Moves, Renamed, With, Lacking
      <3>4. l.src \notin DOMAIN disk'  BY <2>2, <3>3
      <3>5. TrashHeld(req[r])'  BY <2>3, <2>4, <3>2, <3>4 DEF TrashHeld
      <3> QED  BY <2>1, <2>2, <2>4, <3>3, <3>5, TrashStays
    <2>6. CASE ~Moves(l.src, l.dst)
      <3>1. UNCHANGED disk /\ l.src \notin DOMAIN disk
        BY <1>3, <2>6, GalleryMoves DEF RestoreMove
      <3>2. req'[r] = Idle
        BY <1>0, <1>3, <2>6, <3>1 DEF RestoreMove, Goto, Finish, CopiesOnly
      <3>3. TrashHeld(req[r])'  BY <3>2 DEF TrashHeld, Idle
      <3> QED  BY <2>1, <2>4, <3>1, <3>3, TrashStays
    <2> QED  BY <2>5, <2>6
  <1>4. CASE Relist(r)
    <2>1. l.at = "relist" /\ UNCHANGED <<disk, items>> /\ req'[r] = [at |-> "dropitem", id |-> l.id]
      BY <1>0, <1>4 DEF Relist, Goto
    <2>2. TrashHeld(req[r])'  BY <2>1 DEF RestorableAt, TrashHeld
    <2> QED  BY <2>1, <2>2, TrashStays
  <1>5. CASE DropItem(r)
    <2>1. /\ l.at = "dropitem" /\ req'[r] = Idle /\ UNCHANGED disk
          /\ items' = Lacking(items, {l.id})
      BY <1>0, <1>5 DEF DropItem, Goto, Finish
    <2>2. \A i \in DOMAIN items : i = l.id => items[i].trash \notin DOMAIN disk
      BY <2>1 DEF RestorableAt, TrashHeld
    <2>3. /\ DOMAIN items' = DOMAIN items \ {l.id}
          /\ \A j \in DOMAIN items' : items'[j] = items[j]
      BY <2>1 DEF Lacking
    <2>4. \A p \in TrashPaths : p \in DOMAIN disk => p \in TrashPaths'
      BY <2>2, <2>3 DEF TrashPaths
    <2>5. TrashRows'  BY <2>3 DEF RestorableAt, TrashRows
    <2>6. TrashFiles(req[r])'  BY <2>1, <2>4 DEF RestorableAt, TrashFiles
    <2>7. TrashHeld(req[r])'  BY <2>1 DEF TrashHeld, Idle
    <2> QED  BY <2>5, <2>6, <2>7 DEF RestorableAt
  <1> QED  BY <1>1, <1>2, <1>3, <1>4, <1>5 DEF RestoreStep

LEMMA TrashPurge ==
    ASSUME TrashTypeOK, Placed, ~Refusal, trashDir \in TrashDirs, UNCHANGED trashDir,
           NEW r \in Requests, RestorableAt(req[r]), PurgeStep(r)
    PROVE  RestorableAt(req[r])'
  <1> DEFINE l == req[r]
  <1>0. l \in Local /\ PlacedLocal(l) /\ req \in [Requests -> Local]
    BY DEF TrashTypeOK, ReqOK, Placed, PlacedReqs
  <1>1. ASSUME NEW i \in DOMAIN items, LoadForDelete(r, i) PROVE RestorableAt(req[r])'
    <2>1. l.at = "idle" /\ req'[r] = [at |-> "purge", id |-> i, src |-> items[i].trash]
      BY <1>0, <1>1 DEF LoadForDelete, StartRequest, Idle
    <2>2. TrashHeld(req[r])'  BY <1>1, <2>1 DEF TrashHeld, LoadForDelete, stores
    <2> QED  BY <1>1, <2>1, <2>2, TrashStays DEF LoadForDelete, stores
  <1>2. CASE Purge(r)
    <2>1. l.at = "purge" /\ UNCHANGED items  BY <1>2 DEF Purge
    <2>2. l.id \in DOMAIN items /\ l.src = items[l.id].trash  BY <2>1 DEF RestorableAt, TrashHeld
    <2>3. \/ UNCHANGED disk /\ req'[r] = Idle
          \/ /\ disk' = Lacking(disk, {l.src})
             /\ req'[r] = [at |-> "dropitem", id |-> l.id]
      BY <1>0, <1>2 DEF Purge, Goto, Finish
    <2>4. \A p \in DOMAIN disk' : p \in DOMAIN disk  BY <2>3 DEF Lacking
    <2>5. TrashHeld(req[r])'  BY <2>1, <2>2, <2>3 DEF TrashHeld, Idle, Lacking
    <2> QED  BY <2>1, <2>4, <2>5, TrashStays
  <1>3. CASE ReadForClean(r)
    <2>1. /\ l.at = "idle" /\ req'[r] = [at |-> "clean", todo |-> FilesIn(trashDir)]
          /\ UNCHANGED <<disk, items>>
      BY <1>0, <1>3 DEF ReadForClean, StartRequest, Idle, stores
    <2>2. \A p \in DOMAIN disk : p.dir \in TrashDirs => p \in FilesIn(trashDir)
      BY DEF FilesIn, RestorableAt, TrashFiles
    <2>3. TrashHeld(req[r])'  BY <2>1, <2>2 DEF TrashHeld
    <2> QED  BY <2>1, <2>3, TrashStays
  <1>4. CASE CleanRows(r)
    <2>1. /\ l.at = "clean" /\ l.todo = {} /\ req'[r] = Idle /\ items' = <<>> /\ UNCHANGED disk
      BY <1>0, <1>4 DEF CleanRows, Goto, Finish
    <2>2. \A p \in DOMAIN disk : p.dir \notin TrashDirs  BY <2>1 DEF RestorableAt, TrashHeld
    <2>3. DOMAIN items' = {}  BY <2>1
    <2> QED  BY <2>1, <2>2, <2>3 DEF RestorableAt, TrashRows, TrashFiles, TrashHeld, Idle
  <1>5. ASSUME l.at = "clean", NEW p \in l.todo, CleanFile(r, p) PROVE RestorableAt(req[r])'
    <2>1. l \in [at : {"clean"}, todo : SUBSET Path]  BY <1>0, <1>5, LocalShape
    <2>2. req'[r] = [l EXCEPT !.todo = @ \ {p}]  BY <1>0, <1>5 DEF CleanFile, Goto
    <2>3. req'[r].at = "clean" /\ req'[r].todo = l.todo \ {p}  BY <2>1, <2>2
    <2>4. disk' = Lacking(disk, {p}) /\ UNCHANGED items  BY <1>5 DEF CleanFile
    <2>5. DOMAIN disk' = DOMAIN disk \ {p}  BY <2>4 DEF Lacking
    <2>6. TrashHeld(req[r])'  BY <1>5, <2>3, <2>5 DEF RestorableAt, TrashHeld
    <2> QED  BY <1>5, <2>4, <2>5, <2>6, TrashStays
  <1> QED  BY <1>1, <1>2, <1>3, <1>4, <1>5 DEF PurgeStep

LEMMA TrashMove ==
    ASSUME TrashTypeOK, Placed, ~Refusal, UNCHANGED trashDir,
           NEW r \in Requests, RestorableAt(req[r]), MoveStep(r)
    PROVE  RestorableAt(req[r])'
  <1> DEFINE l == req[r]
  <1>0. l \in Local /\ PlacedLocal(l) /\ req \in [Requests -> Local]
    BY DEF TrashTypeOK, ReqOK, Placed, PlacedReqs
  <1>1. ASSUME NEW p \in DOMAIN images, NEW dir \in Folders, ChooseDestination(r, p, dir)
        PROVE RestorableAt(req[r])'
    <2>1. l.at = "idle" /\ req'[r] = [at |-> "destination", src |-> p, dir |-> dir, n |-> 0]
      BY <1>0, <1>1 DEF ChooseDestination, StartRequest, Idle
    <2>2. TrashHeld(req[r])'  BY <2>1 DEF TrashHeld
    <2> QED  BY <1>1, <2>1, <2>2, TrashStays DEF ChooseDestination, stores
  <1>4. CASE TryDestination(r)
    <2>1. req'[r].at \in {"destination", "carry"}  BY <1>0, <1>4, TryTyped
    <2>2. TrashHeld(req[r])'  BY <2>1 DEF TrashHeld
    <2>3. l.at = "destination" /\ UNCHANGED <<disk, items>>  BY <1>4 DEF TryDestination, stores
    <2> QED  BY <2>2, <2>3, TrashStays
  <1>2. CASE Carry(r)
    <2>1. l \in [at : {"carry", "repath"}, src : Path, dst : Path] /\ l.at = "carry"
      BY <1>0, <1>2, LocalShape DEF Carry
    <2>2. l.src.dir \notin TrashDirs /\ l.dst.dir \notin TrashDirs  BY <1>0, <2>1 DEF PlacedLocal
    <2>3. \A p \in DOMAIN disk' : p \in DOMAIN disk \/ p = l.dst
      <3>1. CASE Moves(l.src, l.dst)  BY <3>1 DEF Moves, Renamed, With, Lacking
      <3>2. CASE ~Moves(l.src, l.dst)  BY <1>2, <3>2, GalleryMoves DEF Carry
      <3> QED  BY <3>1, <3>2
    <2>4. req'[r] \in {Idle, [l EXCEPT !.at = "repath"]} /\ UNCHANGED items
      BY <1>0, <1>2 DEF Carry, Goto, Finish
    <2>5. [l EXCEPT !.at = "repath"].at = "repath" /\ Idle.at = "idle"  BY <2>1 DEF Idle
    <2>6. req'[r].at \in {"idle", "repath"}  BY <2>4, <2>5
    <2>7. TrashHeld(req[r])'  BY <2>6 DEF TrashHeld
    <2> QED  BY <2>1, <2>2, <2>3, <2>4, <2>7, TrashStays
  <1>3. CASE UpdatePath(r)
    <2>1. l.at = "repath" /\ req'[r] = Idle /\ UNCHANGED <<disk, items>>
      BY <1>0, <1>3 DEF UpdatePath, Goto, Finish
    <2>2. TrashHeld(req[r])'  BY <2>1 DEF TrashHeld, Idle
    <2> QED  BY <2>1, <2>2, TrashStays
  <1> QED  BY <1>1, <1>2, <1>3, <1>4 DEF MoveStep

TrashSerial ==
    /\ trashDir \in TrashDirs
    /\ \A r \in Requests : Others(r) => RestorableAt(req[r])

LEMMA TrashSerialKept ==
    ASSUME TrashTypeOK, Placed, RowsUnique, Alone, OneByOne, Faultless,
           "settings" \notin trashScenario.calls, TrashSerial, [TrashScenarioNext]_trashScenarioVars
    PROVE  TrashSerial'
  <1>0. UNCHANGED trashDir /\ trashDir \in TrashDirs
    BY DEF TrashScenarioNext, trashScenarioVars, trashVars, TrashSerial
  <1>1. CASE UNCHANGED <<disk, items, req>>
    BY <1>0, <1>1 DEF TrashSerial, RestorableAt, TrashRows, TrashFiles, TrashHeld, TrashPaths,
        FilesIn, Others
  <1>2. CASE UNCHANGED trashScenarioVars  BY <1>1, <1>2 DEF trashScenarioVars, trashVars
  <1>3. ASSUME TrashScenarioNext, Environment PROVE TrashSerial'
    <2>1. ~Crash  BY <1>3, NoFaults
    <2> QED  BY <1>1, <1>3, <2>1 DEF Environment, Tick, SetTrashDir, stores
  <1>4. ASSUME TrashScenarioNext, NEW r \in Requests, Step(r) PROVE TrashSerial'
    <2>1. Alone'  BY <1>4, AloneNext
    <2>2. /\ Others(r) /\ Others(r)'
          /\ \A q \in Requests \ {r} : Others(q)' => req'[q] = req'[r]
      BY <1>4, <2>1, ActsAlone
    <2>3. ~Refusal  BY <1>4, NoFaults
    <2>4. RestorableAt(req[r])  BY <2>2 DEF TrashSerial
    <2>5. RestorableAt(req[r])'
      BY <1>0, <1>4, <2>3, <2>4, TrashDelete, TrashList, TrashRestore, TrashPurge, TrashMove
      DEF Step
    <2>6. ASSUME NEW q \in Requests, Others(q)' PROVE RestorableAt(req[q])'
      <3>1. req'[q] = req'[r]  BY <2>2, <2>6
      <3> QED  BY <2>5, <3>1 DEF RestorableAt, TrashFiles, TrashHeld
    <2> QED  BY <1>0, <2>6 DEF TrashSerial
  <1> QED  BY <1>2, <1>3, <1>4 DEF TrashScenarioNext, TrashNext, Step

LEMMA InitTrash == TrashInit => TrashSerial
  <1> SUFFICES ASSUME TrashInit PROVE TrashSerial  OBVIOUS
  <1>1. \A p \in DOMAIN disk : p.dir \notin TrashDirs
    BY InitialDisksAreGalleries, DirsAreDistinct DEF TrashInit
  <1>2. DOMAIN items = {} /\ trashDir \in TrashDirs  BY DEF TrashInit
  <1>3. \A r \in Requests : req[r] = Idle  BY DEF TrashInit
  <1>4. TrashRows  BY <1>2 DEF TrashRows
  <1>5. \A r \in Requests : TrashFiles(req[r])  BY <1>1 DEF TrashFiles
  <1>6. \A r \in Requests : TrashHeld(req[r])  BY <1>3 DEF TrashHeld, Idle
  <1> QED  BY <1>2, <1>4, <1>5, <1>6 DEF TrashSerial, RestorableAt

LEMMA TrashRestorable == Alone /\ TrashSerial => TrashedIsRestorable
  <1> SUFFICES ASSUME Alone, TrashSerial PROVE TrashedIsRestorable  OBVIOUS
  <1>1. PICK r \in Requests : Others(r)  BY SomeoneAlone
  <1>2. TrashRows /\ TrashFiles(req[r])  BY <1>1 DEF TrashSerial, RestorableAt
  <1> QED  BY <1>2 DEF TrashRows, TrashFiles, TrashPaths, TrashedIsRestorable

-------------------------------------------------------------------------------
(* Batch deduplications one after the other, listings and restores between *)
(* them: of every photo a file stays in a gallery folder, out of reach of  *)
(* the batch under way                                                     *)

Batching == {"next", "choose", "move", "record", "unlist"}
Excluded == {"purge", "clean", "destination", "carry", "repath"}

ImagesHome == \A p \in DOMAIN images : p.dir \in Folders
RowsHome(l) == \A i \in DOMAIN items : items[i].original # NoPath =>
    /\ items[i].original.dir \in Folders
    /\ items[i].original \notin DOMAIN disk \/ Spent(l, i)
    /\ \A j \in DOMAIN items : items[j].original = items[i].original => i = j
HeldHome(l) ==
    /\ l.at \in Batching => \A p \in l.todo : p.dir \in Folders
    /\ l.at \in {"choose", "move", "record"} => l.src \in l.todo
    /\ l.at = "record" =>
          l.src \notin DOMAIN disk /\ \A i \in DOMAIN items : items[i].original # l.src
    /\ l.at = "target" =>
          l.id \in DOMAIN items /\ l.item = items[l.id] /\ l.item.original # NoPath
    /\ l.at = "restore" =>
          l.id \in DOMAIN items /\ l.dst = items[l.id].original /\ l.dst # NoPath
    /\ l.at = "relist" => l.dst.dir \in Folders
\* Of c a file that no goroutine holding l is about to delete
Keeps(l, c) == \E p \in DOMAIN disk :
    disk[p] = c /\ p.dir \in Folders /\ (l.at \in Batching => p \notin l.todo)
Spares(l) == \A c \in Contents : Keeps(l, c)
DedupAt(l) == l.at \notin Excluded /\ ImagesHome /\ RowsHome(l) /\ HeldHome(l) /\ Spares(l)

\* Steps that put no file into the gallery and change no row of the trash
LEMMA DedupStays ==
    ASSUME NEW r \in Requests, DedupAt(req[r]), UNCHANGED items,
           req[r].at \notin {"relist", "dropitem"},
           \A p \in DOMAIN disk' : p \in DOMAIN disk \/ p.dir \in TrashDirs,
           ImagesHome', req'[r].at \notin Excluded, HeldHome(req[r])', Spares(req[r])'
    PROVE  DedupAt(req[r])'
  <1>1. RowsHome(req[r])'  BY DirsAreDistinct DEF DedupAt, RowsHome, Spent
  <1> QED  BY <1>1 DEF DedupAt

\* ... and those that only look
LEMMA DedupLook ==
    ASSUME NEW r \in Requests, DedupAt(req[r]), UNCHANGED <<disk, images, items>>,
           req[r].at \notin {"relist", "dropitem"}, req'[r].at \notin Excluded,
           HeldHome(req[r])',
           \/ req'[r].at \notin Batching
           \/ req[r].at \in Batching /\ req'[r].todo \subseteq req[r].todo
    PROVE  DedupAt(req[r])'
  <1>1. ImagesHome'  BY DEF DedupAt, ImagesHome
  <1>2. ASSUME NEW c \in Contents PROVE Keeps(req[r], c)'
    <2>1. Keeps(req[r], c)  BY DEF DedupAt, Spares
    <2> QED  BY <2>1 DEF Keeps
  <1>3. Spares(req[r])'  BY <1>2 DEF Spares
  <1> QED  BY <1>1, <1>3, DedupStays

\* A rule keeps, of every group it reaches, the files of the folder it names.
LEMMA DoomedSpares ==
    ASSUME TrashTypeOK, SomeNames, DOMAIN images = GalleryFilesOnDisk, ImagesHome,
           NEW c \in Contents, NEW q \in DOMAIN disk, disk[q] = c, q.dir \in Folders,
           NEW g \in DuplicateGroups, NEW keep \in FolderPattern(g)
    PROVE  \E p \in DOMAIN disk : disk[p] = c /\ p.dir \in Folders /\ p \notin Doomed(g, keep)
  <1>1. CASE q \notin Doomed(g, keep)  BY <1>1
  <1>2. CASE q \in Doomed(g, keep)
    <2>1. PICK h \in DuplicateGroups : q \in h /\ FolderPattern(h) = FolderPattern(g)
      BY <1>2 DEF Doomed
    <2>2. PICK d \in Contents : h = {p \in DOMAIN images : images[p] = d}
      BY <2>1 DEF DuplicateGroups
    <2>3. PICK Of : OneContent(Of) /\ Named(Of)  BY DEF SomeNames
    <2>4. ASSUME NEW p \in h PROVE p \in DOMAIN disk /\ disk[p] = d
      <3>1. p \in DOMAIN disk /\ images[p] = d
        BY <2>2, <2>4 DEF GalleryFilesOnDisk
      <3>2. p.name.stem \in Stems  BY <3>1 DEF TrashTypeOK, DiskOK, Path, Name
      <3>3. d # NoHash  BY NoValuesAreDistinct
      <3>4. disk[p] \in Of[p.name.stem] /\ d \in Of[p.name.stem]
        BY <2>2, <2>3, <2>4, <3>1, <3>3 DEF Named, NamedDisk, NamedImages, NamedHash
      <3> QED  BY <2>3, <3>1, <3>2, <3>4 DEF OneContent
    <2>5. d = c  BY <2>1, <2>4
    <2>6. PICK p \in h : p.dir = keep  BY <2>1 DEF FolderPattern
    <2>7. p \notin Doomed(g, keep)  BY <2>6 DEF Doomed
    <2>8. p.dir \in Folders  BY <2>2, <2>6 DEF ImagesHome
    <2> QED  BY <2>4, <2>5, <2>6, <2>7, <2>8
  <1> QED  BY <1>1, <1>2

\* What the clients of these scenarios do
LEMMA DedupSteps ==
    ASSUME TrashTypeOK, TrashScenarioNext, trashScenario.calls \subseteq Deduplications, NEW r \in Requests,
           req[r].at \notin Excluded, Step(r)
    PROVE  \/ DeleteStep(r) /\ (DeleteFiles(r) => BatchDelete(r))
           \/ ListStep(r)
           \/ RestoreStep(r)
  <1>1. /\ "delete" \notin trashScenario.calls /\ "purge" \notin trashScenario.calls
        /\ "clean" \notin trashScenario.calls /\ "move" \notin trashScenario.calls
    BY DEF Deduplications
  <1>2. ASSUME DeleteFiles(r) PROVE BatchDelete(r)
    <2>1. PICK S, dir : StartRequest(r, "delete", NextFile(S, dir))  BY <1>2 DEF DeleteFiles
    <2>2. NextFile(S, dir).at = "next"  BY DEF NextFile
    <2>3. Permitted(r) /\ req'[r] = NextFile(S, dir)  BY <2>1, <2>2, Begun
    <2> QED  BY <1>1, <2>2, <2>3, Endpoint
  <1>3. ASSUME NEW i \in DOMAIN items, LoadForDelete(r, i) PROVE FALSE
    BY <1>1, <1>3, Begun, Endpoint DEF LoadForDelete
  <1>4. ASSUME ReadForClean(r) PROVE FALSE
    BY <1>1, <1>4, Begun, Endpoint DEF ReadForClean
  <1>5. ASSUME NEW p \in DOMAIN images, NEW dir \in Folders, ChooseDestination(r, p, dir)
        PROVE  FALSE
    BY <1>1, <1>5, Begun, Endpoint DEF ChooseDestination
  <1>6. ~MoveStep(r)  BY <1>5 DEF MoveStep, TryDestination, Carry, UpdatePath, Excluded
  <1>7. ~PurgeStep(r)  BY <1>3, <1>4 DEF PurgeStep, Purge, CleanRows, Excluded
  <1> QED  BY <1>2, <1>6, <1>7 DEF Step

LEMMA DedupDelete ==
    ASSUME TrashTypeOK, Placed, SomeNames, RowsUnique, ~Refusal, NEW r \in Requests,
           GalleryAt(req[r]), DedupAt(req[r]), DeleteStep(r), DeleteFiles(r) => BatchDelete(r)
    PROVE  DedupAt(req[r])'
  <1> DEFINE l == req[r]
  <1>0. l \in Local /\ PlacedLocal(l) /\ req \in [Requests -> Local]
    BY DEF TrashTypeOK, ReqOK, Placed, PlacedReqs
  <1>1. CASE BatchDelete(r)
    <2>1. PICK g \in DuplicateGroups : \E keep \in FolderPattern(g), dir \in {trashDir, NoDir} :
            StartRequest(r, "batch", NextFile(Doomed(g, keep), dir))
      BY <1>1 DEF BatchDelete
    <2>2. PICK keep \in FolderPattern(g), dir \in {trashDir, NoDir} :
            StartRequest(r, "batch", NextFile(Doomed(g, keep), dir))
      BY <2>1
    <2>3. l = Idle /\ req'[r] = NextFile(Doomed(g, keep), dir)  BY <1>0, <2>2 DEF StartRequest
    <2>4. /\ l.at = "idle" /\ req'[r].at = "next" /\ req'[r].todo = Doomed(g, keep)
          /\ UNCHANGED <<disk, images, items>>
      BY <1>1, <2>3 DEF Idle, NextFile, BatchDelete, stores
    <2>5. ImagesHome /\ DOMAIN images = GalleryFilesOnDisk  BY <2>4 DEF DedupAt, GalleryAt
    <2>6. Doomed(g, keep) \subseteq DOMAIN images  BY DEF Doomed, DuplicateGroups
    <2>7. HeldHome(req[r])'  BY <2>4, <2>5, <2>6 DEF HeldHome, ImagesHome
    <2>8. ASSUME NEW c \in Contents PROVE Keeps(req[r], c)'
      <3>1. PICK q \in DOMAIN disk : disk[q] = c /\ q.dir \in Folders
        BY DEF DedupAt, Spares, Keeps
      <3>2. PICK p \in DOMAIN disk : disk[p] = c /\ p.dir \in Folders /\ p \notin Doomed(g, keep)
        BY <2>5, <3>1, DoomedSpares
      <3> QED  BY <2>4, <3>2 DEF Keeps
    <2>9. Spares(req[r])' /\ ImagesHome'  BY <2>4, <2>5, <2>8 DEF Spares, ImagesHome
    <2>10. req'[r].at \notin Excluded  BY <2>4 DEF Excluded
    <2> QED  BY <2>4, <2>7, <2>9, <2>10, DedupStays
  <1>2. CASE DeleteDone(r)
    <2>1. req'[r].at = "idle" /\ l.at = "next" /\ UNCHANGED <<disk, images, items>>
      BY <1>0, <1>2 DEF DeleteDone, Goto, Finish, Idle, stores
    <2>2. HeldHome(req[r])'  BY <2>1 DEF HeldHome, Batching
    <2> QED  BY <2>1, <2>2, DedupLook DEF Batching, Excluded
  <1>3. ASSUME l.at = "next", NEW p \in l.todo, RemoveForGood(r, p)
        PROVE  DedupAt(req[r])'
    <2>1. l.at \in Batching /\ \A q \in l.todo : q.dir \in Folders
      BY <1>3 DEF DedupAt, HeldHome, Batching
    <2>2. /\ req'[r].at \in {"unlist", "next"} /\ req'[r].todo \subseteq l.todo
          /\ UNCHANGED <<images, items>>
          /\ disk' = Lacking(disk, {p}) \/ UNCHANGED disk
      BY <1>0, <1>3 DEF RemoveForGood, Goto, NextFile
    <2>3. /\ \A q \in DOMAIN disk' : q \in DOMAIN disk
          /\ \A q \in DOMAIN disk : q # p => q \in DOMAIN disk' /\ disk'[q] = disk[q]
      BY <2>2 DEF Lacking
    <2>4. HeldHome(req[r])'  BY <2>1, <2>2 DEF HeldHome
    <2>5. ASSUME NEW c \in Contents PROVE Keeps(req[r], c)'
      <3>1. Keeps(req[r], c)  BY DEF DedupAt, Spares
      <3> QED  BY <1>3, <2>1, <2>2, <2>3, <3>1 DEF Keeps
    <2>6. Spares(req[r])' /\ ImagesHome'  BY <2>2, <2>5 DEF Spares, DedupAt, ImagesHome
    <2> QED  BY <1>3, <2>2, <2>3, <2>4, <2>6, DedupStays DEF Excluded
  <1>4. ASSUME l.at = "next", NEW p \in l.todo, LookUp(r, p)
        PROVE  DedupAt(req[r])'
    <2>1. /\ req'[r].at = "choose" /\ req'[r].todo = l.todo /\ req'[r].src = p
          /\ UNCHANGED <<disk, images, items>>
      BY <1>0, <1>4 DEF LookUp, Goto, stores
    <2>2. \A q \in l.todo : q.dir \in Folders  BY <1>4 DEF DedupAt, HeldHome, Batching
    <2>3. HeldHome(req[r])'  BY <1>4, <2>1, <2>2 DEF HeldHome
    <2> QED  BY <1>4, <2>1, <2>3, DedupLook DEF Batching, Excluded
  <1>5. CASE ChooseTrashPath(r)
    <2>1. /\ l.at = "choose" /\ req'[r].at = "move" /\ req'[r].todo = l.todo
          /\ req'[r].src = l.src /\ UNCHANGED <<disk, images, items>>
      BY <1>0, <1>5 DEF ChooseTrashPath, Goto, stores
    <2>2. l.src \in l.todo /\ \A q \in l.todo : q.dir \in Folders
      BY <2>1 DEF DedupAt, HeldHome, Batching
    <2>3. HeldHome(req[r])'  BY <2>1, <2>2 DEF HeldHome
    <2> QED  BY <2>1, <2>3, DedupLook DEF Batching, Excluded
  <1>6. CASE MoveToTrash(r)
    <2>1. l \in [at : {"move", "record"}, todo : SUBSET Path, dir : TrashDirs, src : Path,
                 hash : MaybeHash, dst : Path] /\ l.at = "move"
      BY <1>0, <1>6, LocalShape DEF MoveToTrash
    <2>2. /\ l.src \in l.todo /\ \A q \in l.todo : q.dir \in Folders
          /\ l.at \in Batching
      BY <2>1 DEF DedupAt, HeldHome, Batching
    <2>3. l.src.dir \notin TrashDirs /\ l.dst.dir \in TrashDirs  BY <1>0, <2>1 DEF PlacedLocal
    <2>4. UNCHANGED <<images, items>>  BY <1>6 DEF MoveToTrash
    <2>5. CASE Moves(l.src, l.dst)
      <3>1. req'[r] = [l EXCEPT !.at = "record"]
        BY <1>0, <1>6, <2>5 DEF MoveToTrash, Goto, Moves, CopiesOnly, MoveFails, Refusal, TrashTypeOK, EnvOK
      <3>2. req'[r].at = "record" /\ req'[r].todo = l.todo /\ req'[r].src = l.src
        BY <2>1, <3>1
      <3>3. /\ l.src \in DOMAIN disk
            /\ DOMAIN disk' = (DOMAIN disk \ {l.src}) \cup {l.dst}
            /\ \A q \in DOMAIN disk : q # l.src /\ q # l.dst => disk'[q] = disk[q]
        BY <2>5 DEF Moves, Renamed, With, Lacking
      <3>4. l.src \notin DOMAIN disk'  BY <2>3, <3>3
      <3>5. \A i \in DOMAIN items : items[i].original # l.src
        <4> SUFFICES ASSUME NEW i \in DOMAIN items, items[i].original = l.src PROVE FALSE
          OBVIOUS
        <4>1. l.src # NoPath  BY <2>1, NoValuesAreDistinct
        <4>2. items[i].original \notin DOMAIN disk
          BY <2>1, <4>1 DEF DedupAt, RowsHome, Spent
        <4> QED  BY <3>3, <4>2
      <3>6. HeldHome(req[r])'  BY <2>2, <2>4, <3>2, <3>4, <3>5 DEF HeldHome
      <3>7. ASSUME NEW c \in Contents PROVE Keeps(req[r], c)'
        <4>1. PICK p \in DOMAIN disk : disk[p] = c /\ p.dir \in Folders /\ p \notin l.todo
          BY <2>2 DEF DedupAt, Spares, Keeps
        <4>2. p # l.src /\ p # l.dst  BY <2>2, <2>3, <4>1, DirsAreDistinct
        <4> QED  BY <3>2, <3>3, <4>1, <4>2 DEF Keeps
      <3>8. Spares(req[r])' /\ ImagesHome'  BY <2>4, <3>7 DEF Spares, DedupAt, ImagesHome
      <3> QED  BY <2>1, <2>3, <2>4, <3>2, <3>3, <3>6, <3>8, DedupStays DEF Excluded
    <2>6. CASE ~Moves(l.src, l.dst)
      <3>1. UNCHANGED disk  BY <1>6, <2>6, GalleryMoves DEF MoveToTrash
      <3>2. req'[r].at = "next" /\ req'[r].todo = l.todo \ {l.src}
        BY <1>0, <1>6, <2>6 DEF MoveToTrash, Goto, NextFile
      <3>3. HeldHome(req[r])'  BY <2>2, <3>2 DEF HeldHome
      <3> QED  BY <2>1, <2>2, <2>4, <3>1, <3>2, <3>3, DedupLook DEF Excluded
    <2> QED  BY <2>5, <2>6
  <1>7. CASE RecordTrashItem(r)
    <2> DEFINE item == [trash |-> l.dst, original |-> l.src, hash |-> l.hash]
    <2>1. l \in [at : {"move", "record"}, todo : SUBSET Path, dir : TrashDirs, src : Path,
                 hash : MaybeHash, dst : Path] /\ l.at = "record"
      BY <1>0, <1>7, LocalShape DEF RecordTrashItem
    <2>2. /\ l.src \in l.todo /\ \A q \in l.todo : q.dir \in Folders
          /\ l.src \notin DOMAIN disk /\ \A i \in DOMAIN items : items[i].original # l.src
          /\ l.at \in Batching
      BY <2>1 DEF DedupAt, HeldHome, Batching
    <2>3. CreateItem(item) /\ UNCHANGED <<disk, images>> /\ item.original = l.src
      BY <1>7 DEF RecordTrashItem
    <2>4. req'[r].at = "unlist" /\ req'[r].todo = l.todo  BY <1>0, <1>7 DEF RecordTrashItem, Goto
    <2> HIDE DEF item
    <2>5. /\ \A i \in DOMAIN items' : items'[i] = item \/ (i \in DOMAIN items /\ items'[i] = items[i])
          /\ \A i \in DOMAIN items : i \in DOMAIN items' /\ items'[i] = items[i]
          /\ \A i, j \in DOMAIN items' \ DOMAIN items : i = j
      BY <2>3, RowJoins
    <2>6. RowsHome(req[r])'
      <3> SUFFICES ASSUME NEW i \in DOMAIN items', items'[i].original # NoPath
                   PROVE  /\ items'[i].original.dir \in Folders
                          /\ items'[i].original \notin DOMAIN disk'
                          /\ \A j \in DOMAIN items' : items'[j].original = items'[i].original => i = j
        BY DEF RowsHome
      <3>1. CASE i \in DOMAIN items
        <4>1. /\ items[i].original.dir \in Folders /\ items[i].original \notin DOMAIN disk
              /\ \A j \in DOMAIN items : items[j].original = items[i].original => i = j
          BY <2>1, <2>5, <3>1 DEF DedupAt, RowsHome, Spent
        <4> QED  BY <2>2, <2>3, <2>5, <3>1, <4>1
      <3>2. CASE i \notin DOMAIN items
        <4>1. items'[i] = item  BY <2>5, <3>2
        <4>2. \A j \in DOMAIN items' : items'[j].original = l.src => j \notin DOMAIN items
          BY <2>2, <2>5
        <4> QED  BY <2>2, <2>3, <2>5, <3>2, <4>1, <4>2
      <3> QED  BY <3>1, <3>2
    <2>7. HeldHome(req[r])'  BY <2>2, <2>4 DEF HeldHome
    <2>8. ASSUME NEW c \in Contents PROVE Keeps(req[r], c)'
      BY <2>2, <2>3, <2>4 DEF DedupAt, Spares, Keeps
    <2>9. Spares(req[r])' /\ ImagesHome'  BY <2>3, <2>8 DEF Spares, DedupAt, ImagesHome
    <2> QED  BY <2>4, <2>6, <2>7, <2>9 DEF DedupAt, Excluded
  <1>8. CASE DeleteFromDB(r)
    <2>1. /\ l.at = "unlist" /\ req'[r].at = "next" /\ req'[r].todo = l.todo \ {l.src}
          /\ UNCHANGED <<disk, items>>
      BY <1>0, <1>8 DEF DeleteFromDB, Goto, NextFile
    <2>2. l.at \in Batching /\ \A q \in l.todo : q.dir \in Folders
      BY <2>1 DEF DedupAt, HeldHome, Batching
    <2>3. DOMAIN images' \subseteq DOMAIN images  BY <1>8 DEF DeleteFromDB, Lacking
    <2>4. HeldHome(req[r])'  BY <2>1, <2>2 DEF HeldHome
    <2>5. ASSUME NEW c \in Contents PROVE Keeps(req[r], c)'
      BY <2>1, <2>2 DEF DedupAt, Spares, Keeps
    <2>6. Spares(req[r])' /\ ImagesHome'  BY <2>3, <2>5 DEF Spares, DedupAt, ImagesHome
    <2> QED  BY <2>1, <2>4, <2>6, DedupStays DEF Excluded
  <1> QED  BY <1>1, <1>2, <1>3, <1>4, <1>5, <1>6, <1>7, <1>8 DEF DeleteStep

LEMMA DedupList ==
    ASSUME TrashTypeOK, RowsUnique, NEW r \in Requests, DedupAt(req[r]), ListStep(r)
    PROVE  DedupAt(req[r])'
  <1> DEFINE l == req[r]
  <1>0. l \in Local /\ req \in [Requests -> Local]  BY DEF TrashTypeOK, ReqOK
  <1>1. CASE ReadTrashDir(r) \/ ReadTrashRows(r) \/ Reconciled(r)
    <2>1. /\ l.at \notin {"relist", "dropitem"} /\ UNCHANGED <<disk, images, items>>
          /\ req'[r].at \in {"idle", "rows", "reconcile"}
      BY <1>0, <1>1 DEF ReadTrashDir, ReadTrashRows, Reconciled, Goto, StartRequest, Finish, Idle, stores
    <2>2. HeldHome(req[r])'  BY <2>1 DEF HeldHome, Batching
    <2> QED  BY <2>1, <2>2, DedupLook DEF Batching, Excluded
  <1>2. ASSUME l.at = "reconcile", NEW p \in l.backfill, Backfill(r, p)
        PROVE  DedupAt(req[r])'
    <2> DEFINE item == [trash |-> p, original |-> NoPath, hash |-> NoHash]
    <2>1. l \in [at : {"reconcile"}, backfill : SUBSET Path, prune : SUBSET Nat]
      BY <1>0, <1>2, LocalShape
    <2>2. req'[r] = [l EXCEPT !.backfill = @ \ {p}]  BY <1>0, <1>2 DEF Backfill, Goto
    <2>3. req'[r].at = "reconcile"  BY <2>1, <2>2
    <2>4. CreateItem(item) /\ item.original = NoPath /\ UNCHANGED <<disk, images>>
      BY <1>2 DEF Backfill
    <2> HIDE DEF item
    <2>5. \A i \in DOMAIN items' : items'[i] = item \/ (i \in DOMAIN items /\ items'[i] = items[i])
      BY <2>4, RowJoins
    <2>6. RowsHome(req[r])'  BY <1>2, <2>4, <2>5 DEF DedupAt, RowsHome, Spent
    <2>7. HeldHome(req[r])'  BY <2>3 DEF HeldHome, Batching
    <2>8. Spares(req[r])'  BY <2>3, <2>4 DEF DedupAt, Spares, Keeps, Batching
    <2>9. ImagesHome'  BY <2>4 DEF DedupAt, ImagesHome
    <2> QED  BY <2>3, <2>6, <2>7, <2>8, <2>9 DEF DedupAt, Excluded
  <1>3. ASSUME l.at = "reconcile", NEW i \in l.prune, Prune(r, i)
        PROVE  DedupAt(req[r])'
    <2>1. l \in [at : {"reconcile"}, backfill : SUBSET Path, prune : SUBSET Nat]
      BY <1>0, <1>3, LocalShape
    <2>2. req'[r] = [l EXCEPT !.prune = @ \ {i}]  BY <1>0, <1>3 DEF Prune, Goto
    <2>3. req'[r].at = "reconcile"  BY <2>1, <2>2
    <2>4. items' = Lacking(items, {i}) /\ UNCHANGED <<disk, images>>  BY <1>3 DEF Prune
    <2>5. RowsHome(req[r])'  BY <1>3, <2>4 DEF Lacking, DedupAt, RowsHome, Spent
    <2>6. HeldHome(req[r])'  BY <2>3 DEF HeldHome, Batching
    <2>7. Spares(req[r])'  BY <2>3, <2>4 DEF DedupAt, Spares, Keeps, Batching
    <2>8. ImagesHome'  BY <2>4 DEF DedupAt, ImagesHome
    <2> QED  BY <2>3, <2>5, <2>6, <2>7, <2>8 DEF DedupAt, Excluded
  <1> QED  BY <1>1, <1>2, <1>3 DEF ListStep

LEMMA DedupRestore ==
    ASSUME TrashTypeOK, Placed, ~Refusal, NEW r \in Requests, DedupAt(req[r]), RestoreStep(r)
    PROVE  DedupAt(req[r])'
  <1> DEFINE l == req[r]
  <1>0. l \in Local /\ PlacedLocal(l) /\ req \in [Requests -> Local]
    BY DEF TrashTypeOK, ReqOK, Placed, PlacedReqs
  <1>1. ASSUME NEW i \in DOMAIN items, LoadForRestore(r, i) PROVE DedupAt(req[r])'
    <2>1. /\ l.at = "idle" /\ req'[r] = [at |-> "target", id |-> i, item |-> items[i]]
          /\ items[i].original # NoPath /\ UNCHANGED <<disk, images, items>>
      BY <1>0, <1>1 DEF LoadForRestore, StartRequest, Idle, stores
    <2>2. HeldHome(req[r])'  BY <2>1 DEF HeldHome, Batching
    <2>3. req'[r].at \notin Batching /\ req'[r].at \notin Excluded
      BY <2>1 DEF Batching, Excluded
    <2> QED  BY <2>1, <2>2, <2>3, DedupLook
  <1>2. CASE ChooseTarget(r)
    <2>1. l.at = "target" /\ UNCHANGED <<disk, images, items>>  BY <1>2 DEF ChooseTarget, stores
    <2>2. l.id \in DOMAIN items /\ l.item = items[l.id] /\ l.item.original # NoPath
      BY <2>1 DEF DedupAt, HeldHome
    <2>3. l.item.original \notin DOMAIN disk  BY <2>1, <2>2 DEF DedupAt, RowsHome, Spent
    <2>4. \/ req'[r] = Idle
          \/ /\ req'[r].at = "restore" /\ req'[r].id = l.id
             /\ req'[r].dst = l.item.original
      BY <1>0, <1>2, <2>3 DEF ChooseTarget, Goto, Finish
    <2>5. req'[r].at \in {"idle", "restore"}  BY <2>4 DEF Idle
    <2>6. HeldHome(req[r])'
      <3>1. CASE req'[r] = Idle  BY <3>1 DEF HeldHome, Batching, Idle
      <3>2. CASE /\ req'[r].at = "restore" /\ req'[r].id = l.id
                 /\ req'[r].dst = l.item.original
        BY <2>1, <2>2, <3>2 DEF HeldHome, Batching
      <3> QED  BY <2>4, <3>1, <3>2
    <2> QED  BY <2>1, <2>5, <2>6, DedupLook DEF Batching, Excluded
  <1>3. CASE RestoreMove(r)
    <2>1. l \in [at : {"restore", "relist"}, id : Nat, src : Path, dst : Path,
                 hash : MaybeHash] /\ l.at = "restore"
      BY <1>0, <1>3, LocalShape DEF RestoreMove
    <2>2. l.src.dir \in TrashDirs /\ l.dst.dir \notin TrashDirs  BY <1>0, <2>1 DEF PlacedLocal
    <2>3. l.id \in DOMAIN items /\ l.dst = items[l.id].original /\ l.dst # NoPath
      BY <2>1 DEF DedupAt, HeldHome
    <2>4. /\ l.dst \notin DOMAIN disk /\ l.dst.dir \in Folders
          /\ \A i \in DOMAIN items : i # l.id => items[i].original # l.dst
      BY <2>1, <2>3 DEF DedupAt, RowsHome, Spent
    <2>5. UNCHANGED <<images, items>>  BY <1>3 DEF RestoreMove
    <2>6. CASE Moves(l.src, l.dst)
      <3>1. req'[r] = [l EXCEPT !.at = "relist"]
        BY <1>0, <1>3, <2>6 DEF RestoreMove, Goto, Moves, MoveFails, Refusal, TrashTypeOK, EnvOK
      <3>2. req'[r].at = "relist" /\ req'[r].id = l.id /\ req'[r].dst = l.dst  BY <2>1, <3>1
      <3>3. /\ DOMAIN disk' = (DOMAIN disk \ {l.src}) \cup {l.dst}
            /\ \A q \in DOMAIN disk : q # l.src /\ q # l.dst => disk'[q] = disk[q]
        BY <2>6 DEF Moves, Renamed, With, Lacking
      <3>4. RowsHome(req[r])'
        BY <2>1, <2>4, <2>5, <3>2, <3>3 DEF DedupAt, RowsHome, Spent
      <3>5. HeldHome(req[r])'  BY <2>4, <3>2 DEF HeldHome, Batching
      <3>6. ASSUME NEW c \in Contents PROVE Keeps(req[r], c)'
        <4>1. PICK p \in DOMAIN disk : disk[p] = c /\ p.dir \in Folders
          BY DEF DedupAt, Spares, Keeps
        <4>2. p # l.src /\ p # l.dst  BY <2>2, <2>4, <4>1, DirsAreDistinct
        <4> QED  BY <3>2, <3>3, <4>1, <4>2 DEF Keeps, Batching
      <3>7. Spares(req[r])' /\ ImagesHome'  BY <2>5, <3>6 DEF Spares, DedupAt, ImagesHome
      <3> QED  BY <3>2, <3>4, <3>5, <3>7 DEF DedupAt, Excluded
    <2>7. CASE ~Moves(l.src, l.dst)
      <3>1. UNCHANGED disk /\ l.src \notin DOMAIN disk
        BY <1>3, <2>7, GalleryMoves DEF RestoreMove
      <3>2. req'[r].at = "idle"
        BY <1>0, <1>3, <2>7, <3>1 DEF RestoreMove, Goto, Finish, CopiesOnly, Idle
      <3>3. HeldHome(req[r])'  BY <3>2 DEF HeldHome, Batching
      <3> QED  BY <2>1, <2>5, <3>1, <3>2, <3>3, DedupLook DEF Batching, Excluded
    <2> QED  BY <2>6, <2>7
  <1>4. CASE Relist(r)
    <2>1. l.at = "relist" /\ UNCHANGED <<disk, items>> /\ req'[r] = [at |-> "dropitem", id |-> l.id]
      BY <1>0, <1>4 DEF Relist, Goto
    <2>2. l.dst.dir \in Folders  BY <2>1 DEF DedupAt, HeldHome
    <2>3. DOMAIN images' \subseteq DOMAIN images \cup {l.dst}  BY <1>4 DEF Relist, With
    <2>4. ImagesHome'  BY <2>2, <2>3 DEF DedupAt, ImagesHome
    <2>5. RowsHome(req[r])'  BY <2>1 DEF DedupAt, RowsHome, Spent
    <2>6. HeldHome(req[r])'  BY <2>1 DEF HeldHome, Batching
    <2>7. Spares(req[r])'  BY <2>1 DEF DedupAt, Spares, Keeps, Batching
    <2> QED  BY <2>1, <2>4, <2>5, <2>6, <2>7 DEF DedupAt, Excluded
  <1>5. CASE DropItem(r)
    <2>1. /\ l.at = "dropitem" /\ req'[r].at = "idle" /\ UNCHANGED <<disk, images>>
          /\ items' = Lacking(items, {l.id})
      BY <1>0, <1>5 DEF DropItem, Goto, Finish, Idle
    <2>2. RowsHome(req[r])'  BY <2>1 DEF Lacking, DedupAt, RowsHome, Spent
    <2>3. HeldHome(req[r])'  BY <2>1 DEF HeldHome, Batching
    <2>4. Spares(req[r])'  BY <2>1 DEF DedupAt, Spares, Keeps, Batching
    <2>5. ImagesHome'  BY <2>1 DEF DedupAt, ImagesHome
    <2> QED  BY <2>1, <2>2, <2>3, <2>4, <2>5 DEF DedupAt, Excluded
  <1> QED  BY <1>1, <1>2, <1>3, <1>4, <1>5 DEF RestoreStep

DedupSerial == \A r \in Requests : Others(r) => DedupAt(req[r])

LEMMA DedupSerialKept ==
    ASSUME TrashTypeOK, Placed, SomeNames, RowsUnique, Alone, OneByOne, Faultless,
           trashScenario.calls \subseteq Deduplications, GallerySerial, DedupSerial, [TrashScenarioNext]_trashScenarioVars
    PROVE  DedupSerial'
  <1>1. CASE UNCHANGED <<disk, images, items, req>>
    BY <1>1 DEF DedupSerial, DedupAt, ImagesHome, RowsHome, HeldHome, Spares, Keeps, Spent, Others
  <1>2. CASE UNCHANGED trashScenarioVars  BY <1>1, <1>2 DEF trashScenarioVars, trashVars
  <1>3. ASSUME TrashScenarioNext, Environment PROVE DedupSerial'
    <2>1. ~Crash  BY <1>3, NoFaults
    <2> QED  BY <1>1, <1>3, <2>1 DEF Environment, Tick, SetTrashDir, stores
  <1>4. ASSUME TrashScenarioNext, NEW r \in Requests, Step(r) PROVE DedupSerial'
    <2>1. Alone'  BY <1>4, AloneNext
    <2>2. /\ Others(r) /\ Others(r)'
          /\ \A q \in Requests \ {r} : Others(q)' => req'[q] = req'[r]
      BY <1>4, <2>1, ActsAlone
    <2>3. ~Refusal  BY <1>4, NoFaults
    <2>4. GalleryAt(req[r]) /\ DedupAt(req[r])  BY <2>2 DEF GallerySerial, DedupSerial
    <2>5. \/ DeleteStep(r) /\ (DeleteFiles(r) => BatchDelete(r))
          \/ ListStep(r)
          \/ RestoreStep(r)
      BY <1>4, <2>4, DedupSteps DEF DedupAt
    <2>6. DedupAt(req[r])'  BY <2>3, <2>4, <2>5, DedupDelete, DedupList, DedupRestore
    <2>7. ASSUME NEW q \in Requests, Others(q)' PROVE DedupAt(req[q])'
      <3>1. req'[q] = req'[r]  BY <2>2, <2>7
      <3> QED  BY <2>6, <3>1 DEF DedupAt, RowsHome, HeldHome, Spares, Keeps, Spent
    <2> QED  BY <2>7 DEF DedupSerial
  <1> QED  BY <1>2, <1>3, <1>4 DEF TrashScenarioNext, TrashNext, Step

LEMMA InitDedup == TrashScenarioInit /\ Complete => DedupSerial
  <1> SUFFICES ASSUME TrashScenarioInit, Complete, NEW r \in Requests PROVE DedupAt(req[r])
    BY DEF DedupSerial
  <1>1. \A p \in DOMAIN disk : p.dir \in Folders
    BY InitialDisksAreGalleries DEF TrashScenarioInit, TrashInit
  <1>2. \A c \in Contents : \E p \in DOMAIN disk : disk[p] = c  BY DEF TrashScenarioInit, Complete
  <1>3. images = disk /\ DOMAIN items = {} /\ req[r] = Idle  BY DEF TrashScenarioInit, TrashInit
  <1>4. req[r].at = "idle"  BY <1>3 DEF Idle
  <1>5. ImagesHome /\ RowsHome(req[r])  BY <1>1, <1>3 DEF ImagesHome, RowsHome
  <1>6. HeldHome(req[r])  BY <1>4 DEF HeldHome, Batching
  <1>7. Spares(req[r])  BY <1>1, <1>2, <1>4 DEF Spares, Keeps, Batching
  <1> QED  BY <1>4, <1>5, <1>6, <1>7 DEF DedupAt, Excluded

LEMMA DedupSpares == Alone /\ DedupSerial => EveryPhotoInTheGallery
  <1> SUFFICES ASSUME Alone, DedupSerial PROVE EveryPhotoInTheGallery  OBVIOUS
  <1>1. PICK r \in Requests : Others(r)  BY SomeoneAlone
  <1>2. Spares(req[r])  BY <1>1 DEF DedupSerial, DedupAt
  <1> QED  BY <1>2 DEF Spares, Keeps, EveryPhotoInTheGallery

-------------------------------------------------------------------------------
(* One request after the other, whatever fails: what a listing has read is *)
(* still so when it reconciles the rows with it                            *)

ListAt(l) ==
    /\ l.at = "rows" => l.onDisk = FilesIn(trashDir)
    /\ l.at = "reconcile" =>
          /\ l.backfill \subseteq FilesIn(trashDir)
          /\ FilesIn(trashDir) \ l.backfill \subseteq TrashPaths
          /\ l.prune = StaleRows(FilesIn(trashDir))
ListSerial == \A r \in Requests : Others(r) => ListAt(req[r])

\* The other handlers never reach the points of a listing
LEMMA OthersListNothing ==
    ASSUME TrashTypeOK, NEW r \in Requests,
           DeleteStep(r) \/ RestoreStep(r) \/ PurgeStep(r) \/ MoveStep(r)
    PROVE  req'[r].at \notin {"rows", "reconcile"}
  <1> DEFINE l == req[r]
             Other == req'[r].at \notin {"rows", "reconcile"}
  <1> SUFFICES Other  OBVIOUS
  <1>0. l \in Local /\ req \in [Requests -> Local]  BY DEF TrashTypeOK, ReqOK
  <1>1. ASSUME NEW m, m.at \notin {"rows", "reconcile"}, NEW endpoint,
               Goto(r, m) \/ StartRequest(r, endpoint, m)
        PROVE  Other
    <2>1. req'[r] = m  BY <1>0, <1>1 DEF Goto, StartRequest
    <2> QED  BY <1>1, <2>1
  <1>2. Idle.at = "idle"  BY DEF Idle
  <1> HIDE DEF Other
  <1>3. CASE DeleteFiles(r) \/ BatchDelete(r) \/ DeleteDone(r) \/ ChooseTrashPath(r)
             \/ RecordTrashItem(r) \/ DeleteFromDB(r)
    BY <1>1, <1>2, <1>3 DEF DeleteFiles, BatchDelete, DeleteDone, ChooseTrashPath,
       RecordTrashItem, DeleteFromDB, NextFile, Finish
  <1>4. ASSUME NEW p, RemoveForGood(r, p) \/ LookUp(r, p) PROVE Other
    BY <1>1, <1>4 DEF RemoveForGood, LookUp, NextFile
  <1>5. CASE MoveToTrash(r)
    <2>1. l \in [at : {"move", "record"}, todo : SUBSET Path, dir : TrashDirs, src : Path,
                 hash : MaybeHash, dst : Path]
      BY <1>0, <1>5, LocalShape DEF MoveToTrash
    <2>2. [l EXCEPT !.at = "record"].at = "record"  BY <2>1
    <2> QED  BY <1>1, <1>5, <2>2 DEF MoveToTrash, NextFile
  <1>6. ASSUME NEW i, LoadForRestore(r, i) \/ LoadForDelete(r, i) PROVE Other
    BY <1>1, <1>6 DEF LoadForRestore, LoadForDelete
  <1>7. CASE ChooseTarget(r) \/ Relist(r) \/ DropItem(r)
    BY <1>1, <1>2, <1>7 DEF ChooseTarget, Relist, DropItem, Finish
  <1>8. CASE RestoreMove(r)
    <2>1. l \in [at : {"restore", "relist"}, id : Nat, src : Path, dst : Path, hash : MaybeHash]
      BY <1>0, <1>8, LocalShape DEF RestoreMove
    <2>2. [l EXCEPT !.at = "relist"].at = "relist"  BY <2>1
    <2> QED  BY <1>1, <1>2, <1>8, <2>2 DEF RestoreMove, Finish
  <1>9. CASE Purge(r) \/ ReadForClean(r) \/ CleanRows(r)
    BY <1>1, <1>2, <1>9 DEF Purge, ReadForClean, CleanRows, Finish
  <1>10. ASSUME NEW p, CleanFile(r, p) PROVE Other
    <2>1. l \in [at : {"clean"}, todo : SUBSET Path]
      BY <1>0, <1>10, LocalShape DEF CleanFile
    <2>2. [l EXCEPT !.todo = @ \ {p}].at = "clean"  BY <2>1
    <2> QED  BY <1>1, <1>10, <2>2 DEF CleanFile
  <1>11. ASSUME NEW p, NEW dir, ChooseDestination(r, p, dir) PROVE Other
    BY <1>1, <1>11 DEF ChooseDestination
  <1>12. CASE Carry(r)
    <2>1. l \in [at : {"carry", "repath"}, src : Path, dst : Path]
      BY <1>0, <1>12, LocalShape DEF Carry
    <2>2. [l EXCEPT !.at = "repath"].at = "repath"  BY <2>1
    <2> QED  BY <1>1, <1>2, <1>12, <2>2 DEF Carry, Finish
  <1>13. CASE UpdatePath(r)  BY <1>1, <1>2, <1>13 DEF UpdatePath, Finish
  <1>14. CASE TryDestination(r)
    <2>1. PICK m \in Local : Goto(r, m) /\ m.at \in {"destination", "carry"}
      BY <1>0, <1>14, TryTyped
    <2> QED  BY <1>1, <2>1
  <1> QED
    BY <1>3, <1>4, <1>5, <1>6, <1>7, <1>8, <1>9, <1>10, <1>11, <1>12, <1>13, <1>14
    DEF DeleteStep, RestoreStep, PurgeStep, MoveStep

LEMMA ListLists ==
    ASSUME TrashTypeOK, RowsUnique, UNCHANGED trashDir,
           NEW r \in Requests, ListAt(req[r]), ListStep(r)
    PROVE  ListAt(req[r])'
  <1> DEFINE l == req[r]
  <1>0. l \in Local /\ req \in [Requests -> Local]  BY DEF TrashTypeOK, ReqOK
  <1>1. CASE ReadTrashDir(r)
    <2>1. req'[r] = [at |-> "rows", onDisk |-> FilesIn(trashDir)] /\ UNCHANGED disk
      BY <1>0, <1>1 DEF ReadTrashDir, StartRequest, stores
    <2>2. FilesIn(trashDir)' = FilesIn(trashDir)  BY <2>1 DEF FilesIn
    <2> QED  BY <2>1, <2>2 DEF ListAt
  <1>2. CASE ReadTrashRows(r)
    <2>1. /\ l.at = "rows" /\ UNCHANGED <<disk, items>>
          /\ req'[r] = [at |-> "reconcile", backfill |-> l.onDisk, prune |-> StaleRows(l.onDisk)]
      BY <1>0, <1>2 DEF ReadTrashRows, Goto, stores
    <2>2. l.onDisk = FilesIn(trashDir)  BY <2>1 DEF ListAt
    <2>3. /\ FilesIn(trashDir)' = FilesIn(trashDir)
          /\ StaleRows(FilesIn(trashDir))' = StaleRows(FilesIn(trashDir))
      BY <2>1 DEF FilesIn, StaleRows
    <2> QED  BY <2>1, <2>2, <2>3 DEF ListAt
  <1>3. ASSUME l.at = "reconcile", NEW p \in l.backfill, Backfill(r, p)
        PROVE  ListAt(req[r])'
    <2> DEFINE row == [trash |-> p, original |-> NoPath, hash |-> NoHash]
    <2>1. l \in [at : {"reconcile"}, backfill : SUBSET Path, prune : SUBSET Nat]
      BY <1>0, <1>3, LocalShape
    <2>2. req'[r] = [l EXCEPT !.backfill = @ \ {p}]  BY <1>0, <1>3 DEF Backfill, Goto
    <2>3. req'[r].at = "reconcile" /\ req'[r].backfill = l.backfill \ {p} /\ req'[r].prune = l.prune
      BY <2>1, <2>2
    <2>4. CreateItem(row) /\ row.trash = p /\ UNCHANGED disk  BY <1>3 DEF Backfill
    <2> HIDE DEF row
    <2>5. /\ TrashPaths' = TrashPaths \cup {p}
          /\ DOMAIN items \subseteq DOMAIN items'
          /\ \A i \in DOMAIN items : items'[i] = items[i]
          /\ \A i \in DOMAIN items' \ DOMAIN items : items'[i] = row
      BY <2>4, RowJoins
    <2>6. FilesIn(trashDir)' = FilesIn(trashDir)  BY <2>4 DEF FilesIn
    <2>7. /\ p \in FilesIn(trashDir) /\ l.backfill \subseteq FilesIn(trashDir)
          /\ FilesIn(trashDir) \ l.backfill \subseteq TrashPaths
          /\ l.prune = StaleRows(FilesIn(trashDir))
      BY <1>3 DEF ListAt
    <2>8. StaleRows(FilesIn(trashDir))' = StaleRows(FilesIn(trashDir))
      BY <2>4, <2>5, <2>6, <2>7 DEF StaleRows
    <2>9. FilesIn(trashDir)' \ req'[r].backfill \subseteq TrashPaths'
      BY <2>3, <2>5, <2>6, <2>7
    <2> QED  BY <2>3, <2>6, <2>7, <2>8, <2>9 DEF ListAt
  <1>4. ASSUME l.at = "reconcile", NEW i \in l.prune, Prune(r, i)
        PROVE  ListAt(req[r])'
    <2>1. l \in [at : {"reconcile"}, backfill : SUBSET Path, prune : SUBSET Nat]
      BY <1>0, <1>4, LocalShape
    <2>2. req'[r] = [l EXCEPT !.prune = @ \ {i}]  BY <1>0, <1>4 DEF Prune, Goto
    <2>3. req'[r].at = "reconcile" /\ req'[r].backfill = l.backfill /\ req'[r].prune = l.prune \ {i}
      BY <2>1, <2>2
    <2>4. items' = Lacking(items, {i}) /\ UNCHANGED disk  BY <1>4 DEF Prune
    <2>5. DOMAIN items' = DOMAIN items \ {i} /\ \A j \in DOMAIN items' : items'[j] = items[j]
      BY <2>4 DEF Lacking
    <2>6. FilesIn(trashDir)' = FilesIn(trashDir)  BY <2>4 DEF FilesIn
    <2>7. /\ l.backfill \subseteq FilesIn(trashDir)
          /\ FilesIn(trashDir) \ l.backfill \subseteq TrashPaths
          /\ l.prune = StaleRows(FilesIn(trashDir))
      BY <1>4 DEF ListAt
    <2>8. items[i].trash \notin FilesIn(trashDir)  BY <1>4, <2>7 DEF StaleRows
    <2>9. TrashPaths \cap FilesIn(trashDir) \subseteq TrashPaths'
      BY <2>5, <2>8 DEF TrashPaths
    <2>10. StaleRows(FilesIn(trashDir))' = StaleRows(FilesIn(trashDir)) \ {i}
      BY <2>5, <2>6 DEF StaleRows
    <2>11. FilesIn(trashDir)' \ req'[r].backfill \subseteq TrashPaths'
      BY <2>3, <2>6, <2>7, <2>9
    <2> QED  BY <2>3, <2>6, <2>7, <2>10, <2>11 DEF ListAt
  <1>5. CASE Reconciled(r)
    <2>1. req'[r] = Idle  BY <1>0, <1>5 DEF Reconciled, Finish, Goto
    <2> QED  BY <2>1 DEF ListAt, Idle
  <1> QED  BY <1>1, <1>2, <1>3, <1>4, <1>5 DEF ListStep

LEMMA ListSerialKept ==
    ASSUME TrashTypeOK, RowsUnique, Alone, OneByOne, "settings" \notin trashScenario.calls,
           ListSerial, [TrashScenarioNext]_trashScenarioVars
    PROVE  ListSerial'
  <1>0. UNCHANGED trashDir  BY DEF TrashScenarioNext, trashScenarioVars, trashVars
  <1>1. CASE UNCHANGED <<disk, items, req>>
    BY <1>0, <1>1 DEF ListSerial, ListAt, FilesIn, TrashPaths, StaleRows, Others
  <1>2. CASE UNCHANGED trashScenarioVars  BY <1>1, <1>2 DEF trashScenarioVars, trashVars
  <1>3. ASSUME TrashScenarioNext, Environment PROVE ListSerial'
    <2>1. CASE Crash
      <3>1. \A r \in Requests : req'[r] = Idle  BY <2>1 DEF Crash
      <3>2. \A r \in Requests : req'[r].at = "idle"  BY <3>1 DEF Idle
      <3> QED  BY <3>2 DEF ListSerial, ListAt
    <2> QED  BY <1>1, <1>3, <2>1 DEF Environment, Tick, SetTrashDir, stores
  <1>4. ASSUME TrashScenarioNext, NEW r \in Requests, Step(r) PROVE ListSerial'
    <2>1. Alone'  BY <1>4, AloneNext
    <2>2. /\ Others(r) /\ Others(r)'
          /\ \A q \in Requests \ {r} : Others(q)' => req'[q] = req'[r]
      BY <1>4, <2>1, ActsAlone
    <2>3. ListAt(req[r])  BY <2>2 DEF ListSerial
    <2>4. CASE ListStep(r)
      <3>1. ListAt(req[r])'  BY <1>0, <2>3, <2>4, ListLists
      <3>2. ASSUME NEW q \in Requests, Others(q)' PROVE ListAt(req[q])'
        <4>1. req'[q] = req'[r]  BY <2>2, <3>2
        <4> QED  BY <3>1, <4>1 DEF ListAt
      <3> QED  BY <3>2 DEF ListSerial
    <2>5. CASE ~ListStep(r)
      <3>1. req'[r].at \notin {"rows", "reconcile"}
        BY <1>4, <2>5, OthersListNothing DEF Step
      <3>2. ASSUME NEW q \in Requests, Others(q)' PROVE ListAt(req[q])'
        <4>1. req'[q] = req'[r]  BY <2>2, <3>2
        <4> QED  BY <3>1, <4>1 DEF ListAt
      <3> QED  BY <3>2 DEF ListSerial
    <2> QED  BY <2>4, <2>5
  <1> QED  BY <1>2, <1>3, <1>4 DEF TrashScenarioNext, TrashNext, Step

LEMMA InitList == TrashInit => ListSerial
BY DEF TrashInit, ListSerial, ListAt, Idle

\* One row per trash path
LEMMA RowsCount == RowsUnique => Cardinality(DOMAIN items) = Cardinality(TrashPaths)
  <1> SUFFICES ASSUME RowsUnique PROVE Cardinality(DOMAIN items) = Cardinality(TrashPaths)
    OBVIOUS
  <1> DEFINE path == [i \in DOMAIN items |-> items[i].trash]
  <1>1. path \in [DOMAIN items -> TrashPaths]  BY DEF TrashPaths
  <1>2. \A i, j \in DOMAIN items : path[i] = path[j] => i = j  BY DEF RowsUnique
  <1>3. \A p \in TrashPaths : \E i \in DOMAIN items : path[i] = p  BY DEF TrashPaths
  <1>4. path \in Bijection(DOMAIN items, TrashPaths)
    <2> HIDE DEF path
    <2> QED  BY <1>1, <1>2, <1>3 DEF Bijection, Injection, Surjection, IsInjective
  <1>5. ExistsBijection(DOMAIN items, TrashPaths)  BY <1>4 DEF ExistsBijection
  <1>6. IsFiniteSet(DOMAIN items)  BY DEF RowsUnique
  <1> QED  BY <1>5, <1>6, FS_Bijection

LEMMA ListRepairs ==
    ASSUME TrashTypeOK, RowsUnique, Alone, Alone', ListSerial, UNCHANGED trashDir,
           NEW r \in Requests, Reconciled(r)
    PROVE  LeavesOneRowPerFile(r)
  <1>1. Others(r)  BY ActsAlone DEF Step, ListStep
  <1>2. ListAt(req[r])  BY <1>1 DEF ListSerial
  <1>3. FilesIn(trashDir) \subseteq TrashPaths /\ StaleRows(FilesIn(trashDir)) = {}
    BY <1>2 DEF ListAt, Reconciled
  <1>4. TrashPaths = FilesIn(trashDir)  BY <1>3 DEF TrashPaths, StaleRows
  <1>5. UNCHANGED <<disk, items>>  BY DEF Reconciled, stores
  <1>6. TrashPaths' = TrashPaths /\ FilesIn(trashDir)' = FilesIn(trashDir)
    BY <1>5 DEF TrashPaths, FilesIn
  <1>7. Cardinality(DOMAIN items') = Cardinality(TrashPaths')  BY <1>5, <1>6, RowsCount
  <1> QED  BY <1>4, <1>6, <1>7 DEF LeavesOneRowPerFile

-------------------------------------------------------------------------------
(* Together: every scenario keeps the part of the invariant it justifies   *)

LEMMA InitGallery == TrashInit => GallerySerial /\ DeletionInv /\ Alone
  <1> SUFFICES ASSUME TrashInit PROVE GallerySerial /\ DeletionInv /\ Alone  OBVIOUS
  <1>1. \A p \in DOMAIN disk : p.dir \notin TrashDirs
    BY InitialDisksAreGalleries, DirsAreDistinct DEF TrashInit
  <1>2. images = disk /\ DOMAIN images = GalleryFilesOnDisk
    BY <1>1 DEF TrashInit, GalleryFilesOnDisk
  <1>3. \A r \in Requests : req[r] = Idle /\ req[r].at = "idle"  BY DEF TrashInit, Idle
  <1>4. GallerySerial  BY <1>2, <1>3 DEF GallerySerial, GalleryAt
  <1>5. DeletionInv
    BY <1>2, <1>3 DEF DeletionInv, NoRestores, Restores, AllListed, ListedOrLeaving, LeftAlready
  <1> QED  BY <1>3, <1>4, <1>5 DEF Alone

LEMMA SerialMatches == GallerySerial => GalleryMatchesDisk
  <1> SUFFICES ASSUME GallerySerial, Quiet PROVE DOMAIN images = GalleryFilesOnDisk
    BY DEF GalleryMatchesDisk
  <1>1. PICK r \in Requests : TRUE  BY TrashScenariosOK
  <1>2. Others(r) /\ req[r].at = "idle"  BY DEF Quiet, Others, Idle
  <1> QED  BY <1>2 DEF GallerySerial, GalleryAt

LEMMA DeletionsMatch == Placed /\ DeletionInv => GalleryMatchesDisk
  <1> SUFFICES ASSUME Placed, DeletionInv, Quiet PROVE DOMAIN images = GalleryFilesOnDisk
    BY DEF GalleryMatchesDisk
  <1>1. \A r \in Requests : req[r].at = "idle"  BY DEF Quiet, Idle
  <1>2. DOMAIN images \subseteq DOMAIN disk
    BY <1>1 DEF DeletionInv, ListedOrLeaving, Leaving
  <1>3. DOMAIN images \subseteq GalleryFilesOnDisk
    BY <1>2 DEF Placed, PlacedImages, GalleryFilesOnDisk
  <1> QED  BY <1>3 DEF DeletionInv, AllListed

\* The scenario never changes, so that each implication keeps its premise.
StoresInv ==
    /\ TrashTypeOK /\ Placed /\ RowsUnique /\ AnyNames
    /\ OneByOne => Alone
    /\ NamesTell => SomeNames
    /\ Faultless /\ OnlyDeletions => DeletionInv
    /\ Faultless /\ OneByOne => GallerySerial
    /\ Faultless /\ OneByOne /\ PairsAtMost => Pairs /\ PairSerial
    /\ OneByOne /\ "settings" \notin trashScenario.calls => ListSerial
    /\ Faultless /\ OneByOne /\ "settings" \notin trashScenario.calls => TrashSerial
    /\ Faultless /\ OneByOne /\ NamesTell /\ Complete /\ trashScenario.calls \subseteq Deduplications
          => DedupSerial

LEMMA StoresInit == TrashScenarioInit => StoresInv
  <1> SUFFICES ASSUME TrashScenarioInit PROVE StoresInv  OBVIOUS
  <1>1. TrashInit  BY DEF TrashScenarioInit
  <1> QED
    BY <1>1, InitTyped, InitPlaced, InitUnique, InitAnyNames, InitNamed, InitGallery, InitPairs,
       InitList, InitTrash, InitDedup
    DEF StoresInv

LEMMA StoresKept == StoresInv /\ [TrashScenarioNext]_trashScenarioVars => StoresInv'
  <1> SUFFICES ASSUME StoresInv, [TrashScenarioNext]_trashScenarioVars PROVE StoresInv'  OBVIOUS
  <1>1. UNCHANGED trashScenario /\ [TrashNext]_trashVars  BY DEF TrashScenarioNext, trashScenarioVars
  <1>2. /\ OneByOne' = OneByOne /\ Faultless' = Faultless /\ NamesTell' = NamesTell
        /\ PairsAtMost' = PairsAtMost /\ Complete' = Complete /\ OnlyDeletions' = OnlyDeletions
    BY <1>1 DEF OneByOne, Faultless, NamesTell, PairsAtMost, Complete, OnlyDeletions, SameStem
  <1>3. TrashTypeOK /\ Placed /\ RowsUnique /\ AnyNames  BY DEF StoresInv
  <1>4. TrashTypeOK' /\ Placed' /\ RowsUnique' /\ AnyNames'
    BY <1>1, <1>3, TypeKept, PlacedKept, UniqueKept, NamesKept
  <1>5. ASSUME OneByOne PROVE Alone /\ Alone'
    <2>1. Alone  BY <1>5 DEF StoresInv
    <2>2. CASE TrashScenarioNext  BY <1>5, <2>1, <2>2, AloneNext
    <2>3. CASE UNCHANGED trashScenarioVars  BY <2>1, <2>3 DEF trashScenarioVars, trashVars, Alone
    <2> QED  BY <2>1, <2>2, <2>3
  <1>6. NamesTell => SomeNames /\ SomeNames'  BY <1>1, <1>3, NamesKept DEF StoresInv
  <1>7. Faultless /\ OnlyDeletions => DeletionInv'  BY <1>3, DeletionKept DEF StoresInv
  <1>8. Faultless /\ OneByOne => GallerySerial /\ GallerySerial'
    BY <1>3, <1>5, GallerySerialKept DEF StoresInv
  <1>9. ASSUME Faultless, OneByOne, PairsAtMost PROVE Pairs' /\ PairSerial'
    <2>1. Pairs /\ PairSerial  BY <1>9 DEF StoresInv
    <2>2. PairSerial'  BY <1>3, <1>5, <1>8, <1>9, <2>1, PairSerialKept
    <2>3. CASE TrashScenarioNext  BY <1>1, <1>3, <1>9, <2>1, <2>2, <2>3, NoFaults, PairsKept
    <2>4. CASE UNCHANGED trashScenarioVars
      <3>0. UNCHANGED disk  BY <2>4 DEF trashScenarioVars, trashVars
      <3>1. Pairs'  BY <2>1, <3>0, PairsShrunk
      <3> QED  BY <2>2, <3>1
    <2> QED  BY <2>3, <2>4
  <1>10. OneByOne /\ "settings" \notin trashScenario.calls => ListSerial'
    BY <1>3, <1>5, ListSerialKept DEF StoresInv
  <1>11. Faultless /\ OneByOne /\ "settings" \notin trashScenario.calls => TrashSerial'
    BY <1>3, <1>5, TrashSerialKept DEF StoresInv
  <1>12. Faultless /\ OneByOne /\ NamesTell /\ Complete /\ trashScenario.calls \subseteq Deduplications
            => DedupSerial'
    BY <1>3, <1>5, <1>6, <1>8, DedupSerialKept DEF StoresInv
  <1> QED
    BY <1>1, <1>2, <1>4, <1>5, <1>6, <1>7, <1>8, <1>9, <1>10, <1>11, <1>12 DEF StoresInv

\* Whatever the galleries, the requests, the bounds and the scenarios: while
\* nothing fails, requests that do not overlap, and overlapping deletions, leave
\* the gallery table equal to the files outside the trash; the hash of a trash
\* item is that of its file, also when requests overlap, moves fail and the
\* service restarts, as long as names tell photos apart; a trashed file has a row
\* that a restore can use; and batch deduplication spares a copy of every photo
\* (helpers/fileops.go, handlers_trash.go, handlers_duplicates.go).
THEOREM StoresAgree == TrashSpec => []SafeStoresAgree
  <1>1. StoresInv => SafeStoresAgree
    <2> SUFFICES ASSUME StoresInv PROVE SafeStoresAgree  OBVIOUS
    <2>1. Faultless /\ (OneByOne \/ trashScenario.calls \subseteq Deletions) => GalleryMatchesDisk
      BY SerialMatches, DeletionsMatch DEF StoresInv, OnlyDeletions
    <2>2. NamesTell \/ (Faultless /\ OneByOne /\ PairsAtMost) => ItemDescribesItsFile
      BY NamesDescribe, PairsDescribe DEF StoresInv
    <2>3. Faultless /\ OneByOne /\ "settings" \notin trashScenario.calls => TrashedIsRestorable
      BY TrashRestorable DEF StoresInv
    <2>4. Faultless /\ OneByOne /\ NamesTell /\ Complete /\ trashScenario.calls \subseteq Deduplications
             => EveryPhotoInTheGallery
      BY DedupSpares DEF StoresInv
    <2> QED  BY <2>1, <2>2, <2>3, <2>4 DEF SafeStoresAgree
  <1> QED  BY StoresInit, StoresKept, <1>1, PTL DEF TrashSpec

\* Whatever failed and wherever the service restarted before: the listing of the
\* trash that overlaps no other request ends with one row per file of the trash
\* directory, and with no other row (reconcileTrash in handlers_trash.go).
THEOREM ListingsRepair == TrashSpec => RepairingListing
  <1> DEFINE Repairs == OneByOne /\ "settings" \notin trashScenario.calls =>
                          \A r \in Requests : Reconciled(r) => LeavesOneRowPerFile(r)
  <1>1. StoresInv /\ [TrashScenarioNext]_trashScenarioVars => [Repairs]_trashScenarioVars
    <2> SUFFICES ASSUME StoresInv, TrashScenarioNext, OneByOne, "settings" \notin trashScenario.calls,
                        NEW r \in Requests, Reconciled(r)
                 PROVE  LeavesOneRowPerFile(r)
      OBVIOUS
    <2>1. Alone /\ Alone'  BY AloneNext DEF StoresInv
    <2>2. UNCHANGED trashDir  BY DEF TrashScenarioNext
    <2> QED  BY <2>1, <2>2, ListRepairs DEF StoresInv
  <1> QED  BY StoresInit, StoresKept, <1>1, PTL DEF TrashSpec, RepairingListing
===============================================================================
