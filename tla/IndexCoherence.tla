--------------------------- MODULE IndexCoherence ---------------------------
(***************************************************************************)
(* One project of the MCP server: the checkout on disk, the project's      *)
(* database (graph rows, file_hashes rows, index_identity row), the three  *)
(* entry points that rebuild it under Server.indexMu                       *)
(* (handleIndexRepository, syncProject, runAutoIndex), and the evidence    *)
(* requests that read it while they do (handleGetRelationshipEvidence).    *)
(*                                                                         *)
(* A file's content is a model value.  The graph is abstracted to the      *)
(* content its rows were extracted from, the identity envelope to the      *)
(* content of every file (it is a digest of HEAD and of the working tree). *)
(*                                                                         *)
(* The two BOOLEAN constants name the assumptions on the environment under  *)
(* which the label of the graph is right.                                  *)
(***************************************************************************)
EXTENDS Integers, FiniteSets

CONSTANTS
    File,       \* the paths of the checkout
    Content,    \* the contents a file can have
    Absent,     \* a path that does not exist, or has no rows in the graph
    Skipped,    \* a file whose extraction crashed or timed out
    Failed,     \* a capture of the identity that returned an error
    NoHash,     \* a path without a file_hashes row
    Reader,     \* concurrent evidence requests
    MaxEdits,   \* bound on the edits of the checkout
    LiveEdits,  \* an edit may land while a run is reading the checkout
    Reverts     \* a file may return to a content (or absence) it had before

ASSUME IndexAssumption ==
    /\ Absent \notin Content
    /\ Skipped \notin Content \cup {Absent}
    /\ Failed \notin [File -> Content \cup {Absent}]
    /\ NoHash \notin [sha : Content, t : Nat]
    /\ MaxEdits \in Nat
    /\ LiveEdits \in BOOLEAN /\ Reverts \in BOOLEAN

VARIABLES
    disk,     \* the checkout: content and mtime of each path
    edits,    \* how many edits it has seen; the clock mtimes are taken from
    used,     \* every content each path has had
    row,      \* the projects row exists
    graph,    \* the content the graph rows of each path were extracted from
    hash,     \* file_hashes: sha256 and mtime per path
    status,   \* index_identity.identity_status
    ident,    \* the captured envelope, Failed when there is none
    overlooked, \* rows were committed under it by a run that had not seen it
    skips,    \* the skips sidecar
    auto,     \* what startAutoIndex saw (hasDB) and has not run yet
    pc,       \* where the run that holds indexMu is, "idle" when none does
    kind,     \* which of the three entry points that run is
    blind,    \* it took an existing project for a new one
    start,    \* its start identity
    files,    \* the files it discovered
    todo,     \* the files its current pass still has to read
    tostat,   \* files hashed and not yet stat-ed by updateFileHashes
    work,     \* the graph inside its transaction
    whash,    \* file_hashes inside its transaction
    rskips,   \* the skips it recorded
    rpc,      \* where each evidence request is
    rid,      \* the identity its first check captured
    seen      \* what it has read of the graph

disk_vars == <<disk, edits, used>>
label_vars == <<status, ident, overlooked>>
db_vars == <<row, graph, hash, label_vars>>
run_vars == <<pc, kind, blind, start, files, todo, tostat, work, whash, rskips>>
read_vars == <<rpc, rid, seen>>
vars == <<disk_vars, db_vars, skips, auto, run_vars, read_vars>>

State == Content \cup {Absent}
Identity == [File -> State]
Hash == [sha : Content, t : Nat]
Unread == [f \in File |-> Failed]

\* indexidentity.Capture: the content of the whole checkout, in one step.
Capture == [f \in File |-> disk[f].c]
Present == {f \in File : disk[f].c # Absent}

-----------------------------------------------------------------------------
(* The checkout.  Every edit has a new mtime.                              *)

Edit(f, c) ==
    /\ edits < MaxEdits
    /\ c # disk[f].c
    /\ LiveEdits \/ pc = "idle"
    /\ Reverts \/ c \notin used[f]
    /\ edits' = edits + 1
    /\ disk' = [disk EXCEPT ![f] = [c |-> c, t |-> edits + 1]]
    /\ used' = [used EXCEPT ![f] = @ \cup {c}]
    /\ UNCHANGED <<db_vars, skips, auto, run_vars, read_vars>>

-----------------------------------------------------------------------------
(* The start of a run, up to Pipeline.Run.                                 *)

RunIdle ==
    /\ pc = "idle" /\ kind = "none" /\ blind = FALSE /\ start = Failed
    /\ files = {} /\ todo = {} /\ tostat = {} /\ rskips = {}
    /\ work = [f \in File |-> Absent]
    /\ whash = [f \in File |-> NoHash]

EndRun ==
    /\ pc' = "idle" /\ kind' = "none" /\ blind' = FALSE /\ start' = Failed
    /\ files' = {} /\ todo' = {} /\ tostat' = {} /\ rskips' = {}
    /\ work' = [f \in File |-> Absent]
    /\ whash' = [f \in File |-> NoHash]

BeginRun(k) ==
    /\ pc = "idle"
    /\ pc' = "begun"
    /\ kind' = k
    /\ start' \in {Capture, Failed}
    /\ UNCHANGED <<files, todo, tostat, work, whash, rskips>>

\* SetIndexIdentityState(pending): no envelope is left behind.
SetPending == status' = "pending" /\ ident' = Failed /\ overlooked' = FALSE

\* A run that saw the project invalidates its label; one that did not see it
\* (existed is FALSE although there is a row) leaves the label as it is.
Invalidate(existed) ==
    /\ blind' = (row /\ ~existed)
    /\ IF existed THEN SetPending ELSE UNCHANGED label_vars

\* handleIndexRepository: whether the project existed before, start capture,
\* and with force=true the file hashes are dropped, outside any transaction of
\* the run.  The error of GetProject is dropped, so that a project whose row
\* could not be read counts as new.
BeginHandler(force) ==
    /\ BeginRun("handler")
    /\ \E existed \in {row, FALSE} : Invalidate(existed)
    /\ hash' = IF force THEN [f \in File |-> NoHash] ELSE hash
    /\ UNCHANGED <<disk_vars, row, graph, skips, auto, read_vars>>

\* Mutant: the previous envelope is not invalidated.
BeginSyncKeepsIdentity ==
    /\ row
    /\ BeginRun("sync") /\ blind' = FALSE
    /\ UNCHANGED <<disk_vars, db_vars, skips, auto, read_vars>>

\* syncProject, called by the watcher for a project whose row it could read.
BeginSync ==
    /\ row
    /\ BeginRun("sync")
    /\ Invalidate(TRUE)
    /\ UNCHANGED <<disk_vars, row, graph, hash, skips, auto, read_vars>>

\* runAutoIndex: whether to set pending was decided by startAutoIndex, before
\* the goroutine asked for the lock; a project that was indexed since counts as
\* new.  Without a projects row the pending state of a known database cannot be
\* written and nothing runs.
BeginAuto ==
    /\ auto # "none"
    /\ auto = "known" => row
    /\ BeginRun("auto")
    /\ Invalidate(auto = "known")
    /\ auto' = "none"
    /\ UNCHANGED <<disk_vars, row, graph, hash, skips, read_vars>>

\* Its TryLock fails while another run holds indexMu: it is not retried.
SkipAuto ==
    /\ auto # "none" /\ pc # "idle"
    /\ auto' = "none"
    /\ UNCHANGED <<disk_vars, db_vars, skips, run_vars, read_vars>>

\* configureStoredGraphPrecision fails: syncProject and runAutoIndex return
\* and leave the identity pending.
PrecisionFails ==
    /\ pc = "begun" /\ kind \in {"sync", "auto"}
    /\ EndRun
    /\ UNCHANGED <<disk_vars, db_vars, skips, auto, read_vars>>

-----------------------------------------------------------------------------
(* Pipeline.Run.  From Classify to Commit the store's only connection is   *)
(* held by the run's transaction.                                          *)

TxOpen == pc \in {"classify", "scan", "hash", "commit"}

\* discover.Discover, before the transaction.
Discover ==
    /\ pc = "begun"
    /\ pc' = "classify"
    /\ files' = Present
    /\ UNCHANGED <<disk_vars, db_vars, skips, auto, read_vars,
                   kind, blind, start, todo, tostat, work, whash, rskips>>

\* Mutant: a file with a row counts as unchanged.
UnchangedIfHashed == {f \in files \cap Present : hash[f] # NoHash}

\* classifyFiles: mtime first, sha256 when it differs.  A file that vanished
\* since Discover can be neither stat-ed nor hashed, so it counts as changed.
Unchanged ==
    {f \in files \cap Present :
        /\ hash[f] # NoHash
        /\ \/ hash[f].t = disk[f].t
           \/ hash[f].sha = disk[f].c}
Changed == files \ Unchanged
Deleted == {f \in File \ files : hash[f] # NoHash}

\* runPasses takes the full path when nothing is unchanged, and also when the
\* sentinel or the incremental cap says so; the graph buffer starts empty and
\* file_hashes is not touched.
ClassifyFull ==
    /\ pc = "classify"
    /\ pc' = "scan"
    /\ todo' = files
    /\ work' = [f \in File |-> Absent]
    /\ whash' = hash
    /\ UNCHANGED <<disk_vars, db_vars, skips, auto, read_vars,
                   kind, blind, start, files, tostat, rskips>>

\* runIncrementalPasses: rows and hashes of the deleted files go, rows of the
\* changed files go and are rebuilt.
ClassifyIncremental ==
    /\ pc = "classify"
    /\ Unchanged # {}
    /\ Changed \cup Deleted # {}
    /\ pc' = "scan"
    /\ todo' = Changed
    /\ work' = [f \in File |->
                    IF f \in Changed \cup Deleted THEN Absent ELSE graph[f]]
    /\ whash' = [f \in File |-> IF f \in Deleted THEN NoHash ELSE hash[f]]
    /\ UNCHANGED <<disk_vars, db_vars, skips, auto, read_vars,
                   kind, blind, start, files, tostat, rskips>>

\* Nothing changed and nothing was deleted: no pass runs.
ClassifyNoop ==
    /\ pc = "classify"
    /\ Unchanged # {}
    /\ Changed \cup Deleted = {}
    /\ pc' = "commit"
    /\ work' = graph
    /\ whash' = hash
    /\ UNCHANGED <<disk_vars, db_vars, skips, auto, read_vars,
                   kind, blind, start, files, todo, tostat, rskips>>

\* passDefinitions reads and extracts one file; a file that vanished yields no
\* rows.
Scan(f) ==
    /\ pc = "scan" /\ f \in todo
    /\ todo' = todo \ {f}
    /\ \/ work' = [work EXCEPT ![f] = disk[f].c] /\ UNCHANGED rskips
       \/ /\ f \in Present
          /\ work' = [work EXCEPT ![f] = Skipped]
          /\ rskips' = rskips \cup {f}
    /\ UNCHANGED <<disk_vars, db_vars, skips, auto, read_vars,
                   pc, kind, blind, start, files, tostat, whash>>

ScanDone ==
    /\ pc = "scan" /\ todo = {}
    /\ pc' = "hash"
    /\ todo' = files
    /\ UNCHANGED <<disk_vars, db_vars, skips, auto, read_vars,
                   kind, blind, start, files, tostat, work, whash, rskips>>

\* updateFileHashes reads every discovered file AGAIN to hash it, then stats
\* it.  A file that cannot be read keeps the row it has; one that cannot be
\* stat-ed is stored with mtime 0, which never matches.
HashFile(f) ==
    /\ pc = "hash" /\ f \in todo
    /\ todo' = todo \ {f}
    /\ IF f \in Present
       THEN /\ whash' = [whash EXCEPT ![f] = [sha |-> disk[f].c, t |-> 0]]
            /\ tostat' = tostat \cup {f}
       ELSE UNCHANGED <<whash, tostat>>
    /\ UNCHANGED <<disk_vars, db_vars, skips, auto, read_vars,
                   pc, kind, blind, start, files, work, rskips>>

StatFile(f) ==
    /\ pc = "hash" /\ f \in tostat
    /\ tostat' = tostat \ {f}
    /\ whash' = IF f \in Present THEN [whash EXCEPT ![f].t = disk[f].t] ELSE whash
    /\ UNCHANGED <<disk_vars, db_vars, skips, auto, read_vars,
                   pc, kind, blind, start, files, todo, work, rskips>>

HashDone ==
    /\ pc = "hash" /\ todo = {} /\ tostat = {}
    /\ pc' = "commit"
    /\ UNCHANGED <<disk_vars, db_vars, skips, auto, read_vars,
                   kind, blind, start, files, todo, tostat, work, whash, rskips>>

\* WithTransaction commits what runPasses did, the projects row included, and
\* the transaction is gone.
Commit ==
    /\ pc = "commit"
    /\ pc' = "sidecar"
    /\ row' = TRUE
    /\ graph' = work
    /\ hash' = whash
    /\ overlooked' = (overlooked \/ status = "captured")
    /\ work' = [f \in File |-> Absent]
    /\ whash' = [f \in File |-> NoHash]
    /\ UNCHANGED <<disk_vars, status, ident, skips, auto, read_vars,
                   kind, blind, start, files, todo, tostat, rskips>>

\* writeSkipsSidecar replaces the report with the skips of this run.
WriteSkips ==
    /\ pc = "sidecar"
    /\ pc' = "committed"
    /\ skips' = rskips
    /\ UNCHANGED <<disk_vars, db_vars, auto, read_vars,
                   kind, blind, start, files, todo, tostat, work, whash, rskips>>

-----------------------------------------------------------------------------
(* The end of a run.                                                       *)

\* Persisting the error state may itself fail: the row keeps what it had, and
\* without a projects row it cannot exist.
PersistError ==
    \/ row /\ status' = "error" /\ ident' = Failed /\ overlooked' = FALSE
    \/ UNCHANGED label_vars

\* Run returns an error (cancelled, discovery or a pass failed): the
\* transaction is rolled back and the identity set to error.
RunFails ==
    /\ pc \in {"begun", "classify", "scan", "hash", "commit"}
    /\ PersistError
    /\ EndRun
    /\ UNCHANGED <<disk_vars, row, graph, hash, skips, auto, read_vars>>

\* handleIndexRepository and runAutoIndex set pending (again) after the run.
MarkPending ==
    /\ pc = "committed" /\ kind \in {"handler", "auto"}
    /\ SetPending
    /\ pc' = "marked"
    /\ UNCHANGED <<disk_vars, row, graph, hash, skips, auto, read_vars,
                   kind, blind, start, files, todo, tostat, work, whash, rskips>>

\* When that write fails the handler's deferred guard persists an error;
\* runAutoIndex just returns.
MarkPendingFails ==
    /\ pc = "committed" /\ kind \in {"handler", "auto"}
    /\ IF kind = "handler" THEN PersistError ELSE UNCHANGED label_vars
    /\ EndRun
    /\ UNCHANGED <<disk_vars, row, graph, hash, skips, auto, read_vars>>

\* End capture and persistCoherentIndexIdentity: the envelope is stored only
\* when both captures succeeded and agree.
Finish ==
    /\ \/ pc = "marked"
       \/ pc = "committed" /\ kind = "sync"
    /\ \/ /\ start = Capture
          /\ status' = "captured"
          /\ ident' = Capture
          /\ overlooked' = FALSE
       \/ PersistError   \* they differ, a capture failed, or the write did
    /\ EndRun
    /\ UNCHANGED <<disk_vars, row, graph, hash, skips, auto, read_vars>>

\* The server is killed and started again: an open transaction is rolled back
\* and startAutoIndex looks for a database.
Crash ==
    /\ EndRun
    /\ auto' \in IF row THEN {"known"} ELSE {"known", "new", "none"}
    /\ rpc' = [r \in Reader |-> "idle"]
    /\ rid' = [r \in Reader |-> Failed]
    /\ seen' = [r \in Reader |-> Unread]
    /\ UNCHANGED <<disk_vars, db_vars, skips>>

-----------------------------------------------------------------------------
(* handleGetRelationshipEvidence.                                           *)
(* Each check of addLiveIndexIdentity is two steps: the record is read,     *)
(* then the live checkout is captured and compared with it.  A request that *)
(* fails a guard below answers with no evidence (Done).                     *)

ReadRecord(r) ==
    /\ rpc[r] = "idle"
    /\ ~TxOpen
    /\ status = "captured"
    /\ rpc' = [rpc EXCEPT ![r] = "checking"]
    /\ rid' = [rid EXCEPT ![r] = ident]
    /\ UNCHANGED <<disk_vars, db_vars, skips, auto, run_vars, seen>>

CompareLive(r) ==
    /\ rpc[r] = "checking"
    /\ Capture = rid[r]
    /\ rpc' = [rpc EXCEPT ![r] = "reading"]
    /\ UNCHANGED <<disk_vars, db_vars, skips, auto, run_vars, rid, seen>>

\* FindNodeByQN and collectRelationshipCandidates: a statement at a time.
ReadGraph(r, f) ==
    /\ rpc[r] = "reading"
    /\ ~TxOpen
    /\ seen[r][f] = Failed
    /\ seen' = [seen EXCEPT ![r][f] = graph[f]]
    /\ UNCHANGED <<disk_vars, db_vars, skips, auto, run_vars, rpc, rid>>

HasRead(r) == rpc[r] = "reading" /\ \A f \in File : seen[r][f] # Failed

\* The second check: still captured, and the identity of the first one.
RereadRecord(r) ==
    /\ HasRead(r)
    /\ ~TxOpen
    /\ status = "captured" /\ ident = rid[r]
    /\ rpc' = [rpc EXCEPT ![r] = "rechecking"]
    /\ UNCHANGED <<disk_vars, db_vars, skips, auto, run_vars, rid, seen>>

\* Mutant: the second check trusts the record and does not capture again.
RecordTrusted(r) ==
    /\ rpc[r] = "rechecking"
    /\ rpc' = [rpc EXCEPT ![r] = "answered"]
    /\ UNCHANGED <<disk_vars, db_vars, skips, auto, run_vars, rid, seen>>

RecompareLive(r) ==
    /\ rpc[r] = "rechecking"
    /\ Capture = rid[r]
    /\ rpc' = [rpc EXCEPT ![r] = "answered"]
    /\ UNCHANGED <<disk_vars, db_vars, skips, auto, run_vars, rid, seen>>

\* The answer was delivered, or the request was refused or failed.
Done(r) ==
    /\ rpc[r] # "idle"
    /\ rpc' = [rpc EXCEPT ![r] = "idle"]
    /\ rid' = [rid EXCEPT ![r] = Failed]
    /\ seen' = [seen EXCEPT ![r] = Unread]
    /\ UNCHANGED <<disk_vars, db_vars, skips, auto, run_vars>>

-----------------------------------------------------------------------------
Init ==
    /\ \E d \in Identity : disk = [f \in File |-> [c |-> d[f], t |-> 1]]
    /\ edits = 1
    /\ used = [f \in File |-> {disk[f].c}]
    /\ row = FALSE
    /\ graph = [f \in File |-> Absent]
    /\ hash = [f \in File |-> NoHash]
    /\ status = "missing"
    /\ ident = Failed
    /\ overlooked = FALSE
    /\ skips = {}
    /\ auto \in {"new", "none"}
    /\ RunIdle
    /\ rpc = [r \in Reader |-> "idle"]
    /\ rid = [r \in Reader |-> Failed]
    /\ seen = [r \in Reader |-> Unread]

Begin ==
    \/ \E force \in BOOLEAN : BeginHandler(force)
    \/ BeginSync \/ BeginAuto \/ SkipAuto
Passes ==
    \/ Discover \/ ClassifyFull \/ ClassifyIncremental \/ ClassifyNoop
    \/ \E f \in File : Scan(f) \/ HashFile(f) \/ StatFile(f)
    \/ ScanDone \/ HashDone \/ Commit \/ WriteSkips
End == PrecisionFails \/ RunFails \/ MarkPending \/ MarkPendingFails \/ Finish \/ Crash
Read ==
    \E r \in Reader :
        \/ ReadRecord(r) \/ CompareLive(r) \/ \E f \in File : ReadGraph(r, f)
        \/ RereadRecord(r) \/ RecompareLive(r) \/ Done(r)

Next == (\E f \in File, c \in State : Edit(f, c)) \/ Begin \/ Passes \/ End \/ Read

Spec == Init /\ [][Next]_vars

-----------------------------------------------------------------------------
(* Properties.                                                             *)

\* Every variable has its type.
TypeOK ==
    /\ disk \in [File -> [c : State, t : Nat]] /\ edits \in Nat
    /\ used \in [File -> SUBSET State]
    /\ row \in BOOLEAN
    /\ graph \in [File -> State \cup {Skipped}]
    /\ hash \in [File -> Hash \cup {NoHash}]
    /\ status \in {"missing", "pending", "error", "captured"}
    /\ ident \in Identity \cup {Failed} /\ overlooked \in BOOLEAN
    /\ skips \subseteq File
    /\ auto \in {"none", "new", "known"}
    /\ pc \in {"idle", "begun", "classify", "scan", "hash", "commit",
               "sidecar", "committed", "marked"}
    /\ kind \in {"none", "handler", "sync", "auto"} /\ blind \in BOOLEAN
    /\ start \in Identity \cup {Failed}
    /\ files \subseteq File /\ todo \subseteq File /\ tostat \subseteq File
    /\ work \in [File -> State \cup {Skipped}]
    /\ whash \in [File -> Hash \cup {NoHash}]
    /\ rskips \subseteq File
    /\ rpc \in [Reader -> {"idle", "checking", "reading", "rechecking", "answered"}]
    /\ rid \in [Reader -> Identity \cup {Failed}]
    /\ seen \in [Reader -> [File -> State \cup {Skipped, Failed}]]

\* "The graph is never labeled with a checkout state it did not coherently
\* scan": while the identity is captured, the rows of every file come from the
\* content the envelope describes, or the file was skipped.  Only a run that
\* took the project for a new one may have committed other rows under it, and
\* then the checkout is no longer what the label says: a reader that compares
\* the two trusts nothing.
LabelledIsScanned ==
    status = "captured" =>
        \/ \A f \in File : graph[f] \in {ident[f], Skipped}
        \/ overlooked /\ Capture # ident

\* A run that has started and not finished leaves no captured identity for a
\* reader to trust, through every failure and restart, unless it took the
\* project for a new one; even then it does not outlive the run's commit and
\* the write that follows it.
FailClosed == pc # "idle" /\ status = "captured" => blind /\ pc # "marked"

\* What a client may conclude from an answer.
described(r) ==
    IF rpc[r] = "answered"
    THEN [f \in {g \in File : seen[r][g] # Skipped} |-> seen[r][f]]
    ELSE Failed
Contract == INSTANCE EvidenceContract
    WITH checkout <- Capture, answer <- [r \in Reader |-> described(r)],
         None <- Failed

\* An answer with evidence describes the checkout as it is when it is given,
\* although the graph was read statement by statement while runs committed and
\* the checkout moved: the requests implement EvidenceContract.
EvidenceContractHolds == Contract!Spec
=============================================================================
