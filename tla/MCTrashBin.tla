------------------------------ MODULE MCTrashBin ------------------------------
(***************************************************************************)
(* Small instances of TrashBin.  They explore several scenarios, each a    *)
(* gallery and a restriction of TrashNext that a behaviour picks when it   *)
(* begins, so that a property which only some of them justify is checked   *)
(* in those.                                                               *)
(***************************************************************************)
EXTENDS TrashBin, TLC

FileAt(dir, stem) == [dir |-> dir, name |-> [stem |-> stem, tags |-> <<>>]]

\* Two different photos with one name, in two folders
SameName == {FileAt("d1", "a") :> "c1" @@ FileAt("d2", "a") :> "c2"}

\* Every photo has a name of its own
DistinctNames == {FileAt("d1", "a") :> "c1" @@ FileAt("d1", "b") :> "c2"}

\* One photo twice, another once
Duplicates == {FileAt("d1", "a") :> "c1" @@ FileAt("d2", "a") :> "c1" @@ FileAt("d1", "b") :> "c2"}

CONSTANT TrashScenarios

\* disks: the galleries it may start from; requests: how many may be in flight;
\* calls: the endpoints in use; batch, sent, clock: what MaxBatch, MaxCalls and
\* MaxClock limit; failures: what MaxFaults and MaxCrashes limit
ASSUME TrashScenariosOK ==
    /\ IsFiniteSet(Requests) /\ Requests # {}
    /\ TrashScenarios \subseteq
          [disks : SUBSET InitialDisks, requests : Nat, calls : SUBSET Calls,
           batch : Nat, sent : Nat, clock : Nat, failures : Nat]

VARIABLE trashScenario

trashScenarioVars == <<trashVars, trashScenario>>

Everything == {"delete", "list", "restore", "purge", "clean", "move"}
Deletions == {"delete", "list", "purge", "clean", "settings"}
Deduplications == {"batch", "list", "restore", "settings"}

\* In turn: one request, one request that may fail, two requests, two deletions,
\* and deduplication
Every == {
    [disks |-> SameName, requests |-> 1, calls |-> Everything,
     batch |-> 2, sent |-> 6, clock |-> 1, failures |-> 0],
    [disks |-> DistinctNames, requests |-> 1, calls |-> Everything,
     batch |-> 1, sent |-> 4, clock |-> 1, failures |-> 1],
    [disks |-> DistinctNames, requests |-> 2, calls |-> Everything,
     batch |-> 1, sent |-> 4, clock |-> 0, failures |-> 0],
    [disks |-> DistinctNames, requests |-> 2, calls |-> Deletions,
     batch |-> 1, sent |-> 5, clock |-> 0, failures |-> 0],
    [disks |-> Duplicates, requests |-> 1, calls |-> Deduplications,
     batch |-> 2, sent |-> 6, clock |-> 1, failures |-> 0]}

AllDisks == UNION {s.disks : s \in Every}

InFlight == {r \in Requests : req[r] # Idle}

\* The request that a step of r begins is one the scenario has.
Permitted(r) ==
    \/ "delete" \in trashScenario.calls /\ DeleteFiles(r)
    \/ "batch" \in trashScenario.calls /\ BatchDelete(r)
    \/ "list" \in trashScenario.calls /\ ReadTrashDir(r)
    \/ "restore" \in trashScenario.calls /\ \E i \in DOMAIN items : LoadForRestore(r, i)
    \/ "purge" \in trashScenario.calls /\ \E i \in DOMAIN items : LoadForDelete(r, i)
    \/ "clean" \in trashScenario.calls /\ ReadForClean(r)
    \/ /\ "move" \in trashScenario.calls
       /\ \E p \in DOMAIN images, dir \in Folders : ChooseDestination(r, p, dir)

Within ==
    /\ Cardinality(InFlight) <= trashScenario.requests
    /\ calls <= trashScenario.sent /\ clock <= trashScenario.clock
    /\ faults <= trashScenario.failures /\ crashes <= trashScenario.failures
    /\ \A r \in Requests : req[r].at = "next" => Cardinality(req[r].todo) <= trashScenario.batch

TrashScenarioInit == TrashInit /\ trashScenario \in TrashScenarios /\ disk \in trashScenario.disks

TrashScenarioNext ==
    /\ TrashNext
    /\ UNCHANGED trashScenario
    /\ Within'
    /\ calls' # calls => \A r \in Requests : req'[r] # req[r] => Permitted(r)
    /\ "settings" \in trashScenario.calls \/ UNCHANGED trashDir

TrashSpec == TrashScenarioInit /\ [][TrashScenarioNext]_trashScenarioVars

-------------------------------------------------------------------------------
(* The properties, in the scenarios that justify them.                     *)

OneByOne == trashScenario.requests = 1
Faultless == trashScenario.failures = 0

SameStem(p, q) == p.name.stem = q.name.stem

\* Photos that share a name, in whatever folders, are copies of one photo.
NamesTell ==
    \A d \in trashScenario.disks : \A p, q \in DOMAIN d : SameStem(p, q) => d[p] = d[q]

\* No three photos share a name.
PairsAtMost ==
    \A d \in trashScenario.disks : \A p, q, s \in DOMAIN d :
        SameStem(p, q) /\ SameStem(p, s) => p = q \/ p = s \/ q = s

\* The gallery holds every photo there is.
Complete == \A d \in trashScenario.disks : \A c \in Contents : \E p \in DOMAIN d : d[p] = c

\* One request after the other, or deletions alone, keep the gallery table equal
\* to the files outside the trash.  The hash of a trash item is that of its file,
\* whatever overlaps or fails, if names tell photos apart, and otherwise if
\* requests do not overlap.  These also leave every trashed file restorable, and
\* batch deduplications keep a copy of every photo in the gallery
\* (helpers/fileops.go, reconcileTrash, handleBatchDelete).
SafeStoresAgree ==
    /\ Faultless /\ (OneByOne \/ trashScenario.calls \subseteq Deletions) => GalleryMatchesDisk
    /\ NamesTell \/ (Faultless /\ OneByOne /\ PairsAtMost) => ItemDescribesItsFile
    /\ Faultless /\ OneByOne /\ "settings" \notin trashScenario.calls => TrashedIsRestorable
    /\ /\ Faultless /\ OneByOne /\ NamesTell /\ Complete
       /\ trashScenario.calls \subseteq Deduplications
       => EveryPhotoInTheGallery

\* Whatever failed and wherever the service restarted, a listing that overlaps
\* no other request, nor a change of the trash folder, leaves one row per file in
\* the trash (reconcileTrash).
RepairingListing ==
    [][OneByOne /\ "settings" \notin trashScenario.calls =>
          \A r \in Requests : Reconciled(r) => LeavesOneRowPerFile(r)]_trashScenarioVars

===============================================================================
