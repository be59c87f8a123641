---------------------------- MODULE MCGallerySync ----------------------------
(***************************************************************************)
(* Small instances of GallerySync.  One run explores several scenarios; see *)
(* MCTagEmbeddings.                                                        *)
(***************************************************************************)
EXTENDS GallerySync

CONSTANT Scenarios

VARIABLES
    scenario,
    alone,     \* history: no other pass has run since the last one began, and the
               \* folder has been a gallery folder
    steady     \* history: the files that have not changed since it began

\* files: the files there may be; changes: how many changes of files there may
\* be; may: what else may happen
Serially == [files |-> {1, 2}, changes |-> 1, may |-> {"serial", "scan", "sync", "derive"}]
Outages == [files |-> {1}, changes |-> 2, may |-> {"serial", "scan", "sync", "derive", "fail"}]
Overlapping == [files |-> {1, 2}, changes |-> 0, may |-> {"prompt", "scan", "sync", "stop"}]
Editing == [files |-> {1}, changes |-> 1, may |-> {"prompt", "scan", "sync"}]
Restarting == [files |-> {1}, changes |-> 1, may |-> {"scan", "restart"}]
Moving == [files |-> {1}, changes |-> 0, may |-> {"scan", "folder"}]
Every == {Serially, Outages, Overlapping, Editing, Restarting, Moving}

\* What the comments of the kinds of scenarios say.  A scan of an added folder
\* does not verify the rows that it finds, and so the files stay as they are
\* where folders come and go.
ScenarioOK(s) ==
    /\ s.files \subseteq Files
    /\ s.changes \in Nat
    /\ "folder" \in s.may => s.changes = 0
    /\ "serial" \in s.may => "folder" \notin s.may /\ "restart" \notin s.may

ASSUME ScenariosOK == \A s \in Scenarios : ScenarioOK(s)

May(what) == what \in scenario.may

MCVars == <<vars, scenario, alone, steady>>

MCInit ==
    /\ Init
    /\ scenario \in Scenarios
    /\ \A f \in Files \ scenario.files : ~Exists(f)
    /\ alone = TRUE
    /\ steady = Files

PassIdle == Scans("idle") /\ Syncs("idle")

MCUserStep ==
    \E f \in scenario.files :
        \/ last <= scenario.changes /\ (Write(f) \/ Touch(f))
        \/ scenario.changes > 0 /\ Vanish(f)

\* In a serial scenario a pass begins when all that went before has ended, and
\* nothing is derived during a pass; in a prompt one the goroutines that follow
\* up on files take no time.
MCStartPass ==
    /\ May("serial") => Quiet
    /\ \/ May("scan") /\ \E fast \in BOOLEAN : StartScan(fast)
       \/ May("sync") /\ StartSync

ScanBegins == scan.pc = "idle" /\ scan'.pc # "idle"
SyncBegins == sync.pc = "idle" /\ sync'.pc # "idle"

Posted == \A s \in Slots : Idle(s)

MCNext ==
    /\ UNCHANGED scenario
    /\ \/ \E s \in Slots : JobStep(s) \/ (May("fail") /\ JobFails(s))
       \/ /\ May("prompt") => Posted
          /\ \/ MCUserStep
             \/ MCStartPass
             \/ ScanStep
             \/ SyncStep
             \/ May("fail") /\ SyncFails
             \/ May("stop") /\ StopSync
             \/ May("derive") /\ (May("serial") => PassIdle) /\ DeriverStep
             \/ May("folder") /\ (RemoveFolder \/ AddFolder)
             \/ May("restart") /\ Restart
    /\ alone' = IF ScanBegins THEN Syncs("idle")
                ELSE IF SyncBegins THEN Scans("idle")
                ELSE alone /\ gallery'
    /\ steady' = IF ScanBegins \/ SyncBegins THEN Files
                 ELSE {f \in steady : disk'[f] = disk[f]}

MCSpec == MCInit /\ [][MCNext]_MCVars /\ Fairness

\* A pass that no other pass disturbs ends with the index as it should be: of
\* every file that has not changed since it began there is one row, as the file
\* is, if the file is there, and none if it is not (scanDirectory,
\* fastScanGalleryDirectory, syncFolder, cleanupMissingFiles).
Ends ==
    \/ Scans("finish") /\ scan.dirs
    \/ Syncs("sweep") /\ sync.page = {} /\ sync.running
AsOnDisk(f) == {[content |-> r.content, stamp |-> r.stamp] : r \in {r \in rows : r.file = f}}
IndexIsCurrent ==
    alone /\ Ends => \A f \in steady : AsOnDisk(f) = IF Exists(f) THEN {disk[f]} ELSE {}

\* A serial use of the passes leaves nothing derived or extracted from a file as
\* it was before, and nothing of an image that is gone (InvalidateTagsAndEmbeddings,
\* deleteImageFileCascade).
SerialTablesAreSound ==
    /\ IndexIsCurrent
    /\ May("serial") => DerivedIsFresh /\ NoOrphans
    /\ May("serial") /\ ~May("fail") => MetadataIsFresh

\* A file that stays where it is keeps its image, with all that is attached to
\* its id, while no other pass interferes (fastScanGalleryDirectory: "This file
\* exists in DB but not on disk").
ImagesOf(f) == {r.id : r \in {r \in rows : r.file = f}}
ImagesAreKept ==
    [][alone /\ alone' => \A f \in steady' : Exists(f) => ImagesOf(f) \subseteq ImagesOf(f)']_MCVars
===============================================================================
