----------------------------- MODULE Artifacts -----------------------------
(***************************************************************************)
(* Team artifacts: export-artifact packs the database of an indexed        *)
(* project while another process may be indexing it, and import-artifact   *)
(* installs the file as the database of another checkout of the same       *)
(* repository, over a database that may be there.                          *)
(*                                                                         *)
(* The content of a tree is a revision and a dirty fingerprint, 0 for a    *)
(* clean tree; a graph is the content it was built from, and an identity   *)
(* the content that the index claims.  The commands are processes that may *)
(* be killed at every step.  An artifact of another repository, format or  *)
(* schema is refused before anything else and is left out.                 *)
(***************************************************************************)
EXTENDS Integers

CONSTANTS
    MaxRevision,   \* bound: revisions of the repository
    MaxDirt,       \* bound: different uncommitted edits
    None

Content == [rev : 1..MaxRevision, dirt : 0..MaxDirt]
Database == [graph : Content \cup {None}, identity : Content \cup {None}]
NoDatabase == [graph |-> None, identity |-> None]

\* What the code fixes or guarantees of the constants.
ArtifactsAssumption == MaxRevision \in Nat \ {0} /\ MaxDirt \in Nat /\ None \notin Content

Image == {None, "local", "imported", "torn"}

VARIABLES
    tree,      \* the exporter's checkout
    source,    \* its database
    indexing,  \* the run of its server: the content it reads
    overlooked,\* history: rows were committed beside an identity their run had not seen
    export,    \* the exporting command
    artifact,  \* the file at outPath
    image,     \* the database file at the importer's finalPath
    journal,   \* the image that the -wal beside it belongs to
    import,    \* the importing command
    overlap    \* history: a run moved the source between snapshot and header
               \* or had overlooked its identity

exporter == <<tree, source, indexing, overlooked, export, overlap>>
importer == <<image, journal, import>>
vars == <<exporter, artifact, importer>>

\* A payload is the graph of the snapshot: the identity in it is overwritten.
NoExport == [pc |-> "idle", payload |-> None]
NoArtifact == [header |-> None, payload |-> None, whole |-> FALSE, overlapped |-> FALSE]
NoImport == [pc |-> "idle", seen |-> None, stale |-> FALSE,
             file |-> NoArtifact, staged |-> NoDatabase]
Clean == [rev |-> 1, dirt |-> 0]

Init ==
    /\ tree = Clean
    /\ source = NoDatabase /\ indexing = None /\ overlooked = FALSE
    /\ export = NoExport /\ overlap = FALSE
    /\ artifact = NoArtifact
    /\ image \in {None, "local"} /\ journal \in {None, image}
    /\ import = NoImport

-----------------------------------------------------------------------------
(* The exporter's checkout and its server, whose run is IndexCoherence's.    *)

Edit ==
    /\ tree' \in Content
    /\ UNCHANGED <<source, indexing, overlooked, export, overlap, artifact, importer>>

\* A run marks the identity pending first, unless its lookup of the project
\* failed: a blind run leaves the identity there.
BeginRun(blind) ==
    /\ indexing = None /\ indexing' = tree
    /\ IF blind THEN UNCHANGED <<source, overlooked>>
                ELSE source' = [source EXCEPT !.identity = None] /\ overlooked' = FALSE
    /\ UNCHANGED <<tree, export, overlap, artifact, importer>>

\* The graph is committed; then its identity, if the tree is what it was.
EndRun ==
    /\ indexing # None
    /\ \/ /\ source.graph # indexing
          /\ source' = [source EXCEPT !.graph = indexing] /\ UNCHANGED indexing
          /\ overlooked' = (overlooked \/ source.identity # None)
       \/ /\ source.graph = indexing /\ indexing' = None
          /\ source' = [source EXCEPT !.identity = IF tree = indexing THEN tree ELSE None]
          /\ overlooked' = FALSE
    /\ overlap' = (overlap \/ export.pc = "read")
    /\ UNCHANGED <<tree, export, artifact, importer>>

\* The run fails, before or after the commit, and stores an error in place of
\* the identity; or its process dies, and does not.
RunStops ==
    /\ indexing # None /\ indexing' = None
    /\ \/ source' = [source EXCEPT !.identity = None] /\ overlooked' = FALSE
       \/ UNCHANGED <<source, overlooked>>
    /\ UNCHANGED <<tree, export, overlap, artifact, importer>>

-----------------------------------------------------------------------------
(* Export: a snapshot (VACUUM INTO), then the header read from the live      *)
(* store, then writeArtifact, which renames outPath + ".partial".            *)

SnapshotTo ==
    /\ export.pc = "idle" /\ source.graph # None
    /\ export' = [pc |-> "read", payload |-> source.graph] /\ overlap' = overlooked
    /\ UNCHANGED <<tree, source, indexing, overlooked, artifact, importer>>

Header(payload) == source.identity

writeArtifact ==
    /\ export.pc = "read"
    /\ artifact' = [header |-> Header(export.payload), payload |-> export.payload,
                    whole |-> TRUE, overlapped |-> overlap]
    /\ export' = NoExport /\ overlap' = FALSE
    /\ UNCHANGED <<tree, source, indexing, overlooked, importer>>

ExportFails ==
    /\ export.pc = "read" /\ export' = NoExport /\ overlap' = FALSE
    /\ UNCHANGED <<tree, source, indexing, overlooked, artifact, importer>>

Damaged ==
    /\ artifact.whole /\ artifact' = [artifact EXCEPT !.whole = FALSE]
    /\ UNCHANGED <<exporter, importer>>

-----------------------------------------------------------------------------
(* Import, for a checkout with any content.                                  *)

\* assessStaleness: the captured checkout against the header, None when the
\* capture failed; either tree dirty is stale even if the fingerprints agree.
StaleByRevision(header, seen) == None \in {header, seen} \/ header.rev # seen.rev
Stale(header, seen) ==
    \/ header = None \/ seen = None
    \/ header.rev # seen.rev \/ header.dirt # 0 \/ seen.dirt # 0

\* resolveDestination keeps a database that is there unless --force is given.
BeginImport(allowStale, force, seen) ==
    /\ import.pc = "idle" /\ artifact # NoArtifact
    /\ Stale(artifact.header, seen) => allowStale
    /\ image # None => force
    /\ import' = [NoImport EXCEPT !.pc = "stage", !.seen = seen, !.file = artifact,
                                  !.stale = Stale(artifact.header, seen)]
    /\ UNCHANGED <<exporter, artifact, image, journal>>

\* stagePayload and prepareStagedDatabase, on a temporary file: the checksum,
\* RewriteProject, and the verdict: stale_source, or the header's identity.
Verified == import.file.whole
Unverified == TRUE
Staged == [graph |-> IF import.file.whole THEN import.file.payload ELSE None,
           identity |-> IF import.stale THEN None ELSE import.file.header]
Stage ==
    /\ import.pc = "stage"
    /\ IF Verified THEN import' = [import EXCEPT !.pc = "install", !.staged = Staged]
                   ELSE import' = NoImport
    /\ UNCHANGED <<exporter, artifact, image, journal>>

\* installDatabase: the journals go first, then the rename, or, when it keeps
\* failing, a copy over the file.
SweptOfStaged == journal
Swept == None
RemoveJournals ==
    /\ import.pc = "install" /\ journal' = Swept
    /\ import' = [import EXCEPT !.pc = "rename"]
    /\ UNCHANGED <<exporter, artifact, image>>

Rename ==
    /\ import.pc = "rename" /\ image' = "imported"
    /\ import' = NoImport
    /\ UNCHANGED <<exporter, artifact, journal>>

copyFile ==
    /\ import.pc \in {"rename", "copy"}
    /\ IF import.pc = "rename"
       THEN image' = "torn" /\ import' = [import EXCEPT !.pc = "copy"]
       ELSE image' = "imported" /\ import' = NoImport
    /\ UNCHANGED <<exporter, artifact, journal>>

Killed ==
    /\ import.pc # "idle" /\ import' = NoImport
    /\ UNCHANGED <<exporter, artifact, image, journal>>

ExporterNext ==
    \/ \E blind \in BOOLEAN : BeginRun(blind)
    \/ Edit \/ EndRun \/ RunStops \/ SnapshotTo \/ writeArtifact \/ ExportFails
ImporterNext ==
    \/ Damaged \/ Stage \/ RemoveJournals \/ Rename \/ copyFile \/ Killed
    \/ \E allowStale, force \in BOOLEAN, seen \in Content \cup {None} : BeginImport(allowStale, force, seen)

Next == ExporterNext \/ ImporterNext

Spec == Init /\ [][Next]_vars

-----------------------------------------------------------------------------
\* A checkout that import reports as coherent has a graph of exactly the tree
\* that was captured, in spite of edits on both sides, stale and damaged
\* artifacts -- unless a run moved the source while the artifact was written, or
\* had committed rows beside an identity that it had not seen.
CoherentImportIsExact ==
    import.pc \in {"install", "rename", "copy"} /\ import.staged.identity # None =>
        \/ import.staged.graph = import.seen /\ import.seen.dirt = 0
        \/ import.file.overlapped

\* The image in place is never paired with the journal of another image, at
\* whatever step the import is killed.
ImageHasItsOwnJournal == journal # None => journal = image
=============================================================================
