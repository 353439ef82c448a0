----------------------------- MODULE StoreRouter -----------------------------
(***************************************************************************)
(* One project's database file and the StoreRouter entry that opens it,    *)
(* shared by index runs, queries, the watcher, delete_project and the      *)
(* evictor.  Every operation of the router holds StoreRouter.mu; what its   *)
(* callers do with a store, and the file removal of DeleteProject, do not.  *)
(*                                                                         *)
(* A handle is one *sql.DB.  A database file is named by the handle that    *)
(* created it, so a file re-created after a deletion is another file.       *)
(***************************************************************************)
EXTENDS Integers, FiniteSets

CONSTANTS
    Client,     \* goroutines that use the router
    MaxOpens    \* bound on the handles somebody still knows of

ASSUME RouterAssumption == IsFiniteSet(Client) /\ MaxOpens \in Nat

VARIABLES
    db,       \* the file <project>.db, 0 when there is none
    rows,     \* the files that have a projects row
    entry,    \* the handle in StoreRouter.entries, 0 when there is none
    state,    \* what became of each handle
    file,     \* the file each handle opened
    refs,     \* storeEntry.refs
    idle,     \* the entry's lastUsed is longer ago than idleTimeout
    watched,  \* the project is in Watcher.watchList
    pc,       \* where each client is
    hnd,      \* the handle it was given
    gone,     \* history: delete_project succeeded and nobody indexed since
    raced,    \* history: a deletion ran while another client was active
    slow      \* history: a query kept its store for longer than idleTimeout

store_vars == <<db, rows, entry, state, file, idle>>
client_vars == <<pc, hnd>>
vars == <<store_vars, refs, watched, client_vars, gone, raced, slow>>

Handle == 1..MaxOpens
Indexing == {"syncing", "running", "intx", "committed"}
Acquired == Indexing \cup {"polling", "touching", "listing"}
Deleting == {"deleting", "closed", "unlinked"}

\* The clients between AcquireStore and its ReleaseFunc.
Holders(h) == {c \in Client : pc[c] \in Acquired /\ hnd[c] = h}

Overlaps(c, place) ==
    \E d \in Client \ {c} :
        \/ place \in Deleting /\ pc[d] # "idle"
        \/ place # "idle" /\ pc[d] \in Deleting

\* The caller's next place and handle.
Goto(c, place, h) ==
    /\ pc' = [pc EXCEPT ![c] = place] /\ hnd' = [hnd EXCEPT ![c] = h]
    /\ raced' = (raced \/ Overlaps(c, place)) /\ UNCHANGED slow

-----------------------------------------------------------------------------
(* Getting and returning a store.                                          *)

\* getOrOpenLocked: the entry, or a new handle; opening creates a missing file.
Lookup(h) ==
    /\ idle' = FALSE
    /\ \/ /\ h = entry /\ h # 0
          /\ UNCHANGED <<db, rows, entry, state, file>>
       \/ /\ entry = 0
          /\ h \in Handle /\ state[h] = "unopened"
          /\ \A k \in 1..(h - 1) : state[k] # "unopened"
          /\ entry' = h
          /\ state' = [state EXCEPT ![h] = "open"]
          /\ db' = IF db = 0 THEN h ELSE db
          /\ file' = [file EXCEPT ![h] = db']
          /\ UNCHANGED rows

\* Mutant: the ref is not taken.
AcquireUncounted(c, place) ==
    \E h \in Handle :
        /\ Lookup(h)
        /\ UNCHANGED refs
        /\ Goto(c, place, h)

AcquireStore(c, place) ==
    \E h \in Handle :
        /\ Lookup(h)
        /\ refs' = [refs EXCEPT ![h] = @ + 1]
        /\ Goto(c, place, h)

\* Mutant: the ReleaseFunc does not remember that it was called.
ReleaseTwice(c, place) ==
    /\ refs' = [refs EXCEPT ![hnd[c]] = @ - 2]
    /\ Goto(c, place, 0)

\* The ReleaseFunc works on the entry it was made for, in the map or not.
Release(c, place) ==
    /\ refs' = [refs EXCEPT ![hnd[c]] = @ - 1]
    /\ Goto(c, place, 0)

-----------------------------------------------------------------------------
(* Queries: resolveStore, then statements on an unprotected store.         *)

HasProject == db # 0

QueryCheck(c) ==
    /\ pc[c] = "idle"
    /\ HasProject
    /\ Goto(c, "has", 0)
    /\ UNCHANGED <<store_vars, refs, watched, gone>>

ForProject(c) ==
    /\ pc[c] = "has"
    /\ \E h \in Handle : Lookup(h) /\ Goto(c, "using", h)
    /\ UNCHANGED <<refs, watched, gone>>

QueryDone(c) ==
    /\ pc[c] = "using"
    /\ Goto(c, "idle", 0)
    /\ UNCHANGED <<store_vars, refs, watched, gone>>

-----------------------------------------------------------------------------
(* Short reads of the projects row: TouchProject, ListProjects and pollAll. *)

\* Watcher.mu is held while TouchProject reads the row.
TouchBusy == \E d \in Client : pc[d] = "touching"

TouchProject(c) ==
    /\ pc[c] = "has"
    /\ ~watched /\ ~TouchBusy
    /\ AcquireStore(c, "touching")
    /\ UNCHANGED <<watched, gone>>

ListProjects(c) ==
    /\ pc[c] = "idle"
    /\ HasProject
    /\ AcquireStore(c, "listing")
    /\ UNCHANGED <<watched, gone>>

\* pollAll copies the watch list, then acquires each project of the copy.
PollSnapshot(c) ==
    /\ pc[c] = "idle"
    /\ watched /\ ~TouchBusy
    /\ Goto(c, "snapped", 0)
    /\ UNCHANGED <<store_vars, refs, watched, gone>>

PollAcquire(c) ==
    /\ pc[c] = "snapped"
    /\ AcquireStore(c, "polling")
    /\ UNCHANGED <<watched, gone>>

\* GetProject fails on a closed store and finds nothing in a new file.
HasRow(c) == state[hnd[c]] = "open" /\ file[hnd[c]] \in rows

PeekDone(c) ==
    /\ \/ /\ pc[c] = "polling"
          /\ Release(c, IF HasRow(c) THEN "found" ELSE "idle")
          /\ UNCHANGED watched
       \/ /\ pc[c] = "touching"
          /\ watched' = (watched \/ HasRow(c))
          /\ Release(c, "has")
       \/ /\ pc[c] = "listing"
          /\ Release(c, "idle")
          /\ UNCHANGED watched
    /\ UNCHANGED <<store_vars, gone>>

\* The poll found no change, or indexMu is taken (errSyncBusy).
PollDone(c) ==
    /\ pc[c] = "found"
    /\ Goto(c, "idle", 0)
    /\ UNCHANGED <<store_vars, refs, watched, gone>>

-----------------------------------------------------------------------------
(* Index runs, one at a time under Server.indexMu.                         *)

IndexMuFree == \A d \in Client : pc[d] \notin Indexing

\* handleIndexRepository (and a first auto-index): the database need not exist.
RunAcquire(c) ==
    /\ pc[c] = "idle" /\ IndexMuFree
    /\ AcquireStore(c, "running")
    /\ gone' = FALSE
    /\ UNCHANGED watched

\* syncProject; invalidating the identity needs the projects row.
SyncAcquire(c) ==
    /\ pc[c] = "found" /\ IndexMuFree
    /\ AcquireStore(c, "syncing")
    /\ UNCHANGED <<watched, gone>>

SyncCheck(c) ==
    /\ pc[c] = "syncing"
    /\ IF HasRow(c) THEN Goto(c, "running", hnd[c]) /\ UNCHANGED refs
                    ELSE Release(c, "idle")
    /\ UNCHANGED <<store_vars, watched, gone>>

BeginTx(c) ==
    /\ pc[c] = "running"
    /\ state[hnd[c]] = "open"
    /\ Goto(c, "intx", hnd[c])
    /\ UNCHANGED <<store_vars, refs, watched, gone>>

\* A transaction in flight still commits when its *sql.DB has been closed.
CommitTx(c) ==
    /\ pc[c] = "intx"
    /\ rows' = rows \cup {file[hnd[c]]}
    /\ Goto(c, "committed", hnd[c])
    /\ UNCHANGED <<db, entry, state, file, idle, refs, watched, gone>>

\* What follows the commit needs the store; with it the run succeeds and the
\* project is watched.
RunSucceeds(c) ==
    /\ pc[c] = "committed"
    /\ state[hnd[c]] = "open"
    /\ ~TouchBusy
    /\ watched' = TRUE
    /\ Release(c, "idle")
    /\ UNCHANGED <<store_vars, gone>>

RunFails(c) ==
    /\ pc[c] \in {"running", "intx", "committed"}
    /\ Release(c, "idle")
    /\ UNCHANGED <<store_vars, watched, gone>>

-----------------------------------------------------------------------------
(* handleDeleteProject.                                                    *)

DeleteCheck(c) ==
    /\ pc[c] = "idle"
    /\ HasProject
    /\ Goto(c, "deleting", 0)
    /\ UNCHANGED <<store_vars, refs, watched, gone>>

\* Mutant: the entry is dropped and its store left open.
DeleteForgets(c) ==
    /\ pc[c] = "deleting"
    /\ entry' = 0
    /\ Goto(c, "closed", 0)
    /\ UNCHANGED <<db, rows, state, file, idle, refs, watched, gone>>

\* DeleteProject closes the entry's store, whatever its refs.
DeleteClose(c) ==
    /\ pc[c] = "deleting"
    /\ entry' = 0
    /\ state' = IF entry = 0 THEN state ELSE [state EXCEPT ![entry] = "deleted"]
    /\ Goto(c, "closed", 0)
    /\ UNCHANGED <<db, rows, file, idle, refs, watched, gone>>

\* The mutex is released; then the file is unlinked, its sidecars with it.
DeleteUnlink(c) ==
    /\ pc[c] = "closed"
    /\ db' = 0
    /\ Goto(c, "unlinked", 0)
    /\ UNCHANGED <<rows, entry, state, file, idle, refs, watched, gone>>

DeleteUnwatch(c) ==
    /\ pc[c] = "unlinked" /\ ~TouchBusy
    /\ watched' = FALSE
    /\ gone' = TRUE
    /\ Goto(c, "idle", 0)
    /\ UNCHANGED <<store_vars, refs>>

-----------------------------------------------------------------------------
(* The evictor and the end of the process.                                 *)

\* More than idleTimeout passes without a lookup.
TimePasses ==
    /\ entry # 0 /\ ~idle
    /\ idle' = TRUE
    /\ slow' = (slow \/ \E c \in Client : pc[c] = "using")
    /\ UNCHANGED <<db, rows, entry, state, file, refs, watched, client_vars, gone, raced>>

\* Mutant: refs are not looked at.
EvictHeld ==
    /\ entry # 0 /\ idle
    /\ state' = [state EXCEPT ![entry] = "evicted"]
    /\ entry' = 0
    /\ UNCHANGED <<db, rows, file, idle, refs, watched, client_vars, gone, raced, slow>>

\* Mutant: the entry is dropped and its store left open.
EvictForgets ==
    /\ entry # 0 /\ idle /\ refs[entry] <= 0
    /\ entry' = 0
    /\ UNCHANGED <<db, rows, state, file, idle, refs, watched, client_vars, gone, raced, slow>>

evictIdle ==
    /\ entry # 0 /\ idle /\ refs[entry] <= 0
    /\ state' = [state EXCEPT ![entry] = "evicted"]
    /\ entry' = 0
    /\ UNCHANGED <<db, rows, file, idle, refs, watched, client_vars, gone, raced, slow>>

\* CloseAll at shutdown waits for nobody.
CloseAll ==
    /\ entry # 0
    /\ state' = [state EXCEPT ![entry] = "shut"]
    /\ entry' = 0
    /\ UNCHANGED <<db, rows, file, idle, refs, watched, client_vars, gone, raced, slow>>

\* A closed handle nobody knows of is garbage, and so is a file no handle and no
\* directory entry names: the names are used again.
Collect(h) ==
    /\ state[h] \notin {"unopened", "open"}
    /\ \A c \in Client : hnd[c] # h
    /\ db # h /\ \A k \in Handle \ {h} : file[k] # h
    /\ state' = [state EXCEPT ![h] = "unopened"]
    /\ file' = [file EXCEPT ![h] = 0]
    /\ rows' = rows \ {h}
    /\ UNCHANGED <<db, entry, idle, refs, watched, client_vars, gone, raced, slow>>

-----------------------------------------------------------------------------
Init ==
    /\ db = 0 /\ rows = {} /\ entry = 0
    /\ state = [h \in Handle |-> "unopened"]
    /\ file = [h \in Handle |-> 0]
    /\ refs = [h \in Handle |-> 0]
    /\ idle = FALSE /\ watched = FALSE
    /\ gone = FALSE /\ raced = FALSE /\ slow = FALSE
    /\ pc = [c \in Client |-> "idle"]
    /\ hnd = [c \in Client |-> 0]

Query(c) == QueryCheck(c) \/ ForProject(c) \/ QueryDone(c)
Peek(c) ==
    \/ TouchProject(c) \/ ListProjects(c) \/ PollSnapshot(c) \/ PollAcquire(c)
    \/ PeekDone(c) \/ PollDone(c)
Index(c) ==
    \/ RunAcquire(c) \/ SyncAcquire(c) \/ SyncCheck(c)
    \/ BeginTx(c) \/ CommitTx(c) \/ RunSucceeds(c) \/ RunFails(c)
Delete(c) == DeleteCheck(c) \/ DeleteClose(c) \/ DeleteUnlink(c) \/ DeleteUnwatch(c)

Next ==
    \/ \E c \in Client : Query(c) \/ Peek(c) \/ Index(c) \/ Delete(c)
    \/ TimePasses \/ evictIdle \/ CloseAll
    \/ \E h \in Handle : Collect(h)

Spec == Init /\ [][Next]_vars

-----------------------------------------------------------------------------
(* Properties.                                                             *)

\* Every variable has its type.
TypeOK ==
    /\ db \in 0..MaxOpens /\ rows \subseteq Handle /\ entry \in 0..MaxOpens
    /\ state \in [Handle -> {"unopened", "open", "evicted", "deleted", "shut"}]
    /\ file \in [Handle -> 0..MaxOpens]
    /\ refs \in [Handle -> Nat]
    /\ idle \in BOOLEAN /\ watched \in BOOLEAN
    /\ gone \in BOOLEAN /\ raced \in BOOLEAN /\ slow \in BOOLEAN
    /\ pc \in [Client -> {"idle", "has", "using", "snapped", "found"}
                          \cup Acquired \cup Deleting]
    /\ hnd \in [Client -> 0..MaxOpens]

\* The store of a run, of a listing or of a poll is never evicted under it,
\* however long it works ("the evictor will not close the store while refs > 0").
HeldNotEvicted == \A h \in Handle : state[h] = "evicted" => Holders(h) = {}

\* A ref is taken and returned exactly once by every caller, on every path: the
\* store is neither closed under a caller nor kept open for ever.
RefsExact == \A h \in Handle : refs[h] = Cardinality(Holders(h))

\* An open store is the router's entry: two pools never write one file, and
\* CloseAll misses none.
OneOpen == \A h \in Handle : state[h] = "open" => entry = h

\* The file of an open store is on disk, so that what a run commits there is
\* found by the next one that opens the project, and a deleted project stays
\* deleted until somebody indexes it again: unless a deletion overlapped with
\* another client, which may open the file between the entry's close and the
\* removal (DeleteProject does both, under the mutex only the first), or, past
\* its check of the file or the watch list, create it once more.
DiskIsAsTheRouterHasIt ==
    ~raced => /\ \A h \in Handle : state[h] = "open" => file[h] = db
              /\ gone => db = 0
=============================================================================
