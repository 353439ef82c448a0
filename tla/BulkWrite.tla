------------------------------ MODULE BulkWrite ------------------------------
(***************************************************************************)
(* The crash protocol of one project's database file: OpenPath with its     *)
(* checks, BeginBulkWrite/EndBulkWrite around the transaction of            *)
(* Pipeline.Run, plain writes of other tools, kills, power loss, and        *)
(* delete_project as the remedy the errors name.  What other processes do   *)
(* to a database while it is being deleted is StoreRouter's subject.        *)
(*                                                                         *)
(* SQLite is modelled by what it guarantees: in WAL mode with synchronous   *)
(* NORMAL a crash never damages the file; with the MEMORY journal a crash   *)
(* after dirty pages were spilled in an open transaction does, and with     *)
(* synchronous OFF a power loss does until the file is synced again.        *)
(***************************************************************************)
EXTENDS Integers, FiniteSets

CONSTANT Proc  \* server and CLI processes that share the cache directory

NoProc == "none"

ASSUME BulkAssumption == IsFiniteSet(Proc) /\ NoProc \notin Proc

VARIABLES
    main,     \* the .db file exists
    log,      \* its -wal file, and -shm with it: none, empty or full
    pages,    \* whether its pages are consistent
    marker,   \* the .bulkwrite-crash-marker file exists
    journal,  \* journal mode of the file
    sync,     \* synchronous setting of each process's connection
    unsynced, \* written with synchronous OFF and not synced since
    tx,       \* the process with an open write transaction, none of them else
    spilled,  \* that transaction has written dirty pages into the file
    pc,       \* where each process is
    cancelled,\* the context of its run is cancelled
    bare,     \* a run went on without a marker, and its writes may do or have done harm
    shared,   \* history: two processes had the database open at one time
    cutshort  \* history: EndBulkWrite ran with a cancelled context

file_vars == <<main, log, pages, marker, unsynced, bare>>
conn_vars == <<journal, sync, tx, spilled>>
run_vars == <<pc, cancelled, shared, cutshort>>
vars == <<file_vars, conn_vars, run_vars>>

Open == {p \in Proc : pc[p] \notin {"closed", "checked", "deleting"}}
Alone(p) == \A q \in Proc \ {p} : pc[q] = "closed"
Goto(p, place) ==
    /\ pc' = [pc EXCEPT ![p] = place]
    /\ shared' = (shared \/ (place # "closed" /\ ~Alone(p)))

-----------------------------------------------------------------------------
(* OpenPath.                                                               *)

Orphaned == ~main /\ log # "none"

\* A connection whose DSN names WAL switches the file to it, and syncs the file
\* when it does; while a writer uses another mode it waits for it in vain.  What a
\* run without a marker wrote is safe from then on, unless it is damaged.
EnterWal ==
    /\ tx = NoProc \/ journal = "wal"
    /\ journal' = "wal"
    /\ unsynced' = (unsynced /\ journal = "wal")
    /\ bare' = (bare /\ pages = "torn")

\* removeBulkWriteMarker ignores the error of os.Remove.
removeBulkWriteMarker == marker' \in {FALSE, marker}

\* writeBulkWriteMarker logs that it could not create the file, and that is all.
writeBulkWriteMarker ==
    \/ marker' = TRUE /\ UNCHANGED bare
    \/ bare' = (bare \/ ~marker) /\ UNCHANGED marker

QuickCheck == pages = "ok"

\* Mutant: a failed quick_check is logged, and that is all.
MarkerOnlyWarns ==
    IF marker /\ QuickCheck THEN EnterWal /\ removeBulkWriteMarker /\ main' = TRUE
    ELSE UNCHANGED <<journal, unsynced, bare, marker, main>>

\* Without a marker nothing is looked at; the check of a marked database that is
\* missing creates it.
checkAndClearBulkWriteMarker ==
    IF marker THEN QuickCheck /\ EnterWal /\ removeBulkWriteMarker /\ main' = TRUE
    ELSE UNCHANGED <<journal, unsynced, bare, marker, main>>

\* recoverStaleSHM: an empty log goes, with its shared memory, whoever uses them.
recoverStaleSHM ==
    log' = IF log = "empty" THEN "none" ELSE log

\* OpenPath up to its connection, when all checks pass; a refused open changes
\* nothing that matters here.
Check(p) ==
    /\ pc[p] = "closed"
    /\ ~Orphaned
    /\ recoverStaleSHM
    /\ checkAndClearBulkWriteMarker
    /\ Goto(p, "checked")
    /\ UNCHANGED <<pages, sync, tx, spilled, cancelled, cutshort>>

\* The connection itself, which creates a missing database and its schema.
Connect(p) ==
    /\ pc[p] = "checked"
    /\ EnterWal
    /\ main' = TRUE
    /\ log' = IF ~main THEN "full" ELSE IF log = "none" THEN "empty" ELSE log
    /\ sync' = [sync EXCEPT ![p] = "normal"]
    /\ Goto(p, "idle")
    /\ UNCHANGED <<pages, marker, tx, spilled, cancelled, cutshort>>

\* initSchema or checkFormatVersion returns an error.
ConnectFails(p) ==
    /\ pc[p] = "checked"
    /\ Goto(p, "closed")
    /\ UNCHANGED <<file_vars, conn_vars, cancelled, cutshort>>

\* The last connection checkpoints and removes the log.
Close(p) ==
    /\ pc[p] = "idle"
    /\ Goto(p, "closed")
    /\ log' = IF Open = {p} THEN "none" ELSE log
    /\ UNCHANGED <<main, pages, marker, unsynced, bare, conn_vars, cancelled, cutshort>>

-----------------------------------------------------------------------------
(* Pipeline.Run.                                                           *)

\* BeginBulkWrite, first the marker.
Mark(p) ==
    /\ pc[p] = "idle"
    /\ writeBulkWriteMarker
    /\ Goto(p, "marked")
    /\ UNCHANGED <<main, log, pages, unsynced, conn_vars, cancelled, cutshort>>

\* Then the PRAGMAs, whose errors are ignored: with a cancelled context they do
\* not run, and leaving WAL fails while another process has the file open.
Switch(p) ==
    /\ pc[p] = "marked"
    /\ IF cancelled[p] THEN UNCHANGED <<log, journal, sync>>
       ELSE /\ sync' = [sync EXCEPT ![p] = "off"]
            /\ IF Open = {p} THEN journal' = "memory" /\ log' = "none"
               ELSE UNCHANGED <<journal, log>>
    /\ Goto(p, "bulk")
    /\ UNCHANGED <<main, pages, marker, unsynced, bare, tx, spilled, cancelled, cutshort>>

BeginTx(p) ==
    /\ pc[p] = "bulk"
    /\ IF cancelled[p] THEN Goto(p, "txdone") /\ UNCHANGED tx
       ELSE tx = NoProc /\ tx' = p /\ Goto(p, "intx")
    /\ UNCHANGED <<file_vars, journal, sync, spilled, cancelled, cutshort>>

\* A transaction larger than the page cache writes into the file before it ends.
Spill(p) ==
    /\ tx = p /\ ~spilled /\ journal = "memory"
    /\ spilled' = TRUE
    /\ UNCHANGED <<file_vars, journal, sync, tx, run_vars>>

\* Commit or rollback.  database/sql may discard the connection of a cancelled
\* transaction; the next one is opened with the settings of the DSN.
EndTx(p) ==
    /\ pc[p] \in {"intx", "plain"}
    /\ tx' = NoProc /\ spilled' = FALSE
    /\ log' = IF journal = "wal" THEN "full" ELSE log
    /\ \/ unsynced' = (unsynced \/ sync[p] = "off") /\ UNCHANGED <<journal, sync>>
       \/ /\ cancelled[p]
          /\ journal' = "wal" /\ sync' = [sync EXCEPT ![p] = "normal"]
          /\ unsynced' = (journal = "wal" /\ (unsynced \/ sync[p] = "off"))
    /\ Goto(p, IF pc[p] = "intx" THEN "txdone" ELSE "idle")
    /\ UNCHANGED <<main, pages, marker, bare, cancelled, cutshort>>

\* EndBulkWrite, first the PRAGMAs, again with the run's context.
Restore(p) ==
    /\ pc[p] = "txdone"
    /\ IF cancelled[p] THEN UNCHANGED <<journal, sync, unsynced, bare>>
       ELSE EnterWal /\ sync' = [sync EXCEPT ![p] = "normal"]
    /\ cutshort' = (cutshort \/ cancelled[p])
    /\ Goto(p, "restored")
    /\ UNCHANGED <<main, log, pages, marker, tx, spilled, cancelled>>

\* Then the marker goes; Run truncates the log and is over.
Unmark(p) ==
    /\ pc[p] = "restored"
    /\ removeBulkWriteMarker
    /\ log' = IF journal = "wal" /\ ~cancelled[p] THEN "empty" ELSE log
    /\ Goto(p, "idle")
    /\ cancelled' = [cancelled EXCEPT ![p] = FALSE]
    /\ UNCHANGED <<main, pages, unsynced, bare, conn_vars, cutshort>>

\* A write outside a run: an identity state, an ADR, trace validations.
PlainWrite(p) ==
    /\ pc[p] = "idle" /\ tx = NoProc
    /\ tx' = p
    /\ Goto(p, "plain")
    /\ UNCHANGED <<file_vars, journal, sync, spilled, cancelled, cutshort>>

\* The client cancels the request.
Cancel(p) ==
    /\ ~cancelled[p]
    /\ pc[p] \in {"marked", "bulk", "intx", "txdone"}
    /\ cancelled' = [cancelled EXCEPT ![p] = TRUE]
    /\ UNCHANGED <<file_vars, conn_vars, pc, shared, cutshort>>

-----------------------------------------------------------------------------
(* Deletion and crashes.                                                   *)

HasProject == main

\* handleDeleteProject and DeleteProject, which remove one file after the other.
DeleteDb(p) ==
    /\ pc[p] = "closed" /\ Alone(p)
    /\ HasProject
    /\ main' = FALSE /\ pages' = "ok" /\ unsynced' = FALSE /\ bare' = FALSE
    /\ Goto(p, "deleting")
    /\ UNCHANGED <<log, marker, conn_vars, cancelled, cutshort>>

DeleteSidecars(p) ==
    /\ pc[p] = "deleting"
    /\ log' = "none" /\ marker' = FALSE
    /\ Goto(p, "closed")
    /\ UNCHANGED <<main, pages, unsynced, bare, conn_vars, cancelled, cutshort>>

\* A MEMORY journal dies with its process.
Kill(p) ==
    /\ pc[p] # "closed"
    /\ pages' = IF tx = p /\ spilled THEN "torn" ELSE pages
    /\ tx' = IF tx = p THEN NoProc ELSE tx
    /\ spilled' = (spilled /\ tx # p)
    /\ Goto(p, "closed")
    /\ cancelled' = [cancelled EXCEPT ![p] = FALSE]
    /\ UNCHANGED <<main, log, marker, unsynced, bare, journal, sync, cutshort>>

PowerLoss ==
    /\ pages' \in IF spilled THEN {"torn"} ELSE IF unsynced THEN {pages, "torn"} ELSE {pages}
    /\ unsynced' = FALSE
    /\ tx' = NoProc /\ spilled' = FALSE
    /\ pc' = [p \in Proc |-> "closed"]
    /\ cancelled' = [p \in Proc |-> FALSE]
    /\ UNCHANGED <<main, log, marker, bare, journal, sync, shared, cutshort>>

-----------------------------------------------------------------------------
Init ==
    /\ main = FALSE /\ log = "none" /\ pages = "ok" /\ marker = FALSE
    /\ journal = "wal" /\ sync = [p \in Proc |-> "normal"]
    /\ unsynced = FALSE /\ bare = FALSE /\ tx = NoProc /\ spilled = FALSE
    /\ pc = [p \in Proc |-> "closed"]
    /\ cancelled = [p \in Proc |-> FALSE]
    /\ shared = FALSE /\ cutshort = FALSE

OpenOrClose(p) == Check(p) \/ Connect(p) \/ ConnectFails(p) \/ Close(p)
Run(p) ==
    \/ Mark(p) \/ Switch(p) \/ BeginTx(p) \/ Spill(p) \/ EndTx(p)
    \/ Restore(p) \/ Unmark(p) \/ PlainWrite(p) \/ Cancel(p)

Next ==
    \/ \E p \in Proc :
        OpenOrClose(p) \/ Run(p) \/ DeleteDb(p) \/ DeleteSidecars(p) \/ Kill(p)
    \/ PowerLoss

Spec == Init /\ [][Next]_vars

-----------------------------------------------------------------------------
(* Properties.                                                             *)

\* Every variable has its type, and a write transaction belongs to a process
\* that is inside one.
TypeOK ==
    /\ main \in BOOLEAN /\ log \in {"none", "empty", "full"} /\ pages \in {"ok", "torn"}
    /\ marker \in BOOLEAN /\ unsynced \in BOOLEAN /\ bare \in BOOLEAN /\ spilled \in BOOLEAN
    /\ journal \in {"wal", "memory"} /\ sync \in [Proc -> {"normal", "off"}]
    /\ tx \in Proc \cup {NoProc}
    /\ pc \in [Proc -> {"closed", "checked", "idle", "marked", "bulk", "intx",
                        "txdone", "restored", "plain", "deleting"}]
    /\ cancelled \in [Proc -> BOOLEAN] /\ shared \in BOOLEAN /\ cutshort \in BOOLEAN
    /\ tx # NoProc => pc[tx] \in {"intx", "plain"}

\* A crash that damages the file leaves the marker behind, from the first page
\* written without a journal to the sync of the last: "if the process is killed
\* inside this window, the marker survives" (BeginBulkWrite).  A second process
\* that opens the database removes it, and so does a cancelled run; a run whose
\* marker could not be created writes without one ("best-effort", store.go:242).
TornIsMarked == ~shared /\ ~cutshort /\ ~bare => (pages = "torn" => marker)

\* A damaged database is never served: OpenPath refuses it, time after time,
\* until it is deleted.
ServedIsSound == ~shared /\ ~cutshort /\ ~bare => (pages = "torn" => Open = {})

\* Both: from the first page written without a journal, damage is never unseen.
DamageIsSeen == TornIsMarked /\ ServedIsSound
=============================================================================
