------------------------------ MODULE Watcher ------------------------------
(***************************************************************************)
(* The background watcher on one project: how a poll notices a change with *)
(* git, with fsnotify or with directory mtimes, moves between these tiers, *)
(* and hands the project to the indexer, while its files, its git checkout *)
(* and the watch list change at any step.                                  *)
(*                                                                         *)
(* Time is left out: nextPoll only says how soon the next poll is.  A poll *)
(* that cannot open the store or finds no root is a poll that does not     *)
(* happen.  The run that indexFn starts is IndexCoherence's subject; here  *)
(* it succeeds only on a checkout that is the same before and after it.    *)
(***************************************************************************)
EXTENDS Integers, Sequences, FiniteSetsExt

CONSTANTS
    FullInterval,    \* fullSnapshotInterval, in polls
    UpgradeInterval, \* upgradeAttemptInterval, in polls
    MaxStamp,        \* bound: changes to the files, the first content included
    MaxCommits,      \* bound: commits
    MaxFaults        \* bound: failing runs and walks, changes of git's state

ASSUME WatcherAssumption ==
    /\ FullInterval \in Nat \ {0} /\ UpgradeInterval \in Nat \ {0}
    /\ MaxStamp \in Nat \ {0} /\ MaxCommits \in Nat /\ MaxFaults \in Nat

VARIABLES
    text,        \* the content of the working tree
    stamp,       \* its mtimes and sizes: new with every change
    commits,     \* the content of every commit
    head,        \* the commit at HEAD
    git,         \* no repository, one whose commands fail, or a working one
    graph,       \* the content that is indexed
    watched,     \* the project is on the watch list
    deleting,    \* delete_project has removed the database, not yet the watch
    known,       \* the watcher has a projectState for it, with these fields:
    snapshot,    \*   the stamp of the last snapshot
    strategy,
    lastHead,
    fsWatcher,   \*   an fsnotify watcher and its goroutine are running
    fsChanged,
    dirChanged,  \*   the directories no longer have the recorded mtimes
    sinceFull, sinceUpgrade,
    reported,    \* what Strategies() says
    pc,          \* where the poll is
    snap,        \* the snapshot that this poll captured
    run,         \* the checkout that its run captured when it began
    faults,
    missed       \* history: how a change that git will not see came about

tree == <<text, stamp, commits, head>>
list == <<watched, deleting>>
state == <<known, snapshot, strategy, lastHead, sinceFull, sinceUpgrade, reported>>
flags == <<fsWatcher, fsChanged, dirChanged>>
poll == <<pc, snap, run>>
vars == <<tree, git, graph, list, state, flags, poll, faults, missed>>

NoGraph == 0
Torn == -1  \* rows of two contents, from a run during which the files changed
NoHead == 0
None == 0
Tiers == {"auto", "git", "fsnotify", "dirmtime"}

Fault == faults < MaxFaults /\ faults' = faults + 1
Clean == text = commits[head]
Moved == lastHead # NoHead /\ lastHead # head
\* git status and HEAD say nothing, and the graph is not what is on disk.
Overlooked ==
    /\ known /\ strategy = "git" /\ lastHead = head /\ Clean
    /\ graph \notin {NoGraph, text}
\* To be the last conjunct of an action.
Explain(cause) == missed' = IF Overlooked' THEN missed \cup {cause} ELSE missed

-----------------------------------------------------------------------------
(* The files.                                                              *)

\* Events may be lost; an edit in place does not touch its directory.
Notice ==
    /\ fsChanged' \in {fsChanged, fsChanged \/ fsWatcher}
    /\ dirChanged' \in {dirChanged, dirChanged \/ strategy = "dirmtime"}
    /\ UNCHANGED fsWatcher

Edit ==
    /\ stamp < MaxStamp
    /\ stamp' = stamp + 1 /\ text' = stamp + 1
    /\ Notice
    /\ UNCHANGED <<commits, head, git, graph, list, state, poll, faults, missed>>

Commit ==
    /\ git = "ok" /\ Len(commits) < MaxCommits
    /\ commits' = Append(commits, text) /\ head' = Len(commits) + 1
    /\ UNCHANGED <<text, stamp, git, graph, list, state, flags, poll, faults, missed>>

\* git checkout, stash or reset --hard, of another commit or of HEAD itself.
Checkout ==
    /\ git = "ok" /\ stamp < MaxStamp
    /\ head' \in 1..Len(commits) /\ text' = commits[head']
    /\ text' # text
    /\ stamp' = stamp + 1
    /\ Notice
    /\ UNCHANGED <<commits, git, graph, list, state, poll, faults>>
    /\ Explain("returned")

GitChanges ==
    /\ Fault
    /\ git' \in {"none", "broken", "ok"} \ {git}
    /\ UNCHANGED <<tree, graph, list, state, flags, poll, missed>>

-----------------------------------------------------------------------------
(* The tools.                                                              *)

\* index_repository, which waits for indexMu, and its Watch.
IndexRepository ==
    /\ pc # "indexing"
    /\ graph' = text /\ watched' = TRUE
    /\ missed' = {}
    /\ UNCHANGED <<tree, git, deleting, state, flags, poll, faults>>

TouchProject ==
    /\ ~watched /\ graph # NoGraph
    /\ watched' = TRUE
    /\ UNCHANGED <<tree, git, graph, deleting, state, flags, poll, faults, missed>>

DeleteProject ==
    /\ ~deleting /\ graph # NoGraph
    /\ graph' = NoGraph /\ deleting' = TRUE
    /\ UNCHANGED <<tree, git, watched, state, flags, poll, faults, missed>>

Unwatch ==
    /\ deleting
    /\ deleting' = FALSE /\ watched' = FALSE
    /\ UNCHANGED <<tree, git, graph, state, flags, poll, faults, missed>>

-----------------------------------------------------------------------------
(* The poll.                                                               *)

\* Mutant: the strategy of a pruned project is kept for the next time.
PruneSnapshot ==
    /\ pc = "idle" /\ known /\ ~watched
    /\ known' = FALSE /\ reported' = "none" /\ snapshot' = None
    /\ fsWatcher' = FALSE /\ fsChanged' = FALSE /\ dirChanged' = FALSE
    /\ UNCHANGED <<tree, git, graph, list, strategy, lastHead, sinceFull,
                   sinceUpgrade, poll, faults, missed>>

\* pollAll drops the state of a project that is no longer watched.
Prune ==
    /\ pc = "idle" /\ known /\ ~watched
    /\ known' = FALSE /\ reported' = "none"
    /\ snapshot' = None /\ strategy' = "auto" /\ lastHead' = NoHead
    /\ sinceFull' = 0 /\ sinceUpgrade' = 0
    /\ fsWatcher' = FALSE /\ fsChanged' = FALSE /\ dirChanged' = FALSE
    /\ UNCHANGED <<tree, git, graph, list, poll, faults, missed>>

Due == pc = "idle" /\ watched /\ graph # NoGraph

\* initBaseline, first its snapshot.
Baseline ==
    /\ Due /\ snapshot = None
    /\ known' = TRUE
    /\ snapshot' = stamp
    /\ missed' = IF text # graph THEN missed \cup {"baseline"} ELSE missed
    /\ pc' = "probe"
    /\ UNCHANGED <<tree, git, graph, list, strategy, lastHead, sinceFull,
                   sinceUpgrade, reported, flags, snap, run, faults>>

\* Every attempt to start an fsnotify watcher may fail; the directories' mtimes
\* are recorded when it does.
initFSNotify ==
    /\ strategy' \in {"fsnotify", "dirmtime"}
    /\ fsWatcher' = (strategy' = "fsnotify")
    /\ dirChanged' = FALSE

HeadRead == IF git = "ok" THEN head ELSE NoHead

\* Then its strategy, by probeStrategy.
Probe ==
    /\ pc = "probe"
    /\ IF git # "none"
       THEN strategy' = "git" /\ lastHead' = HeadRead /\ UNCHANGED flags
       ELSE initFSNotify /\ UNCHANGED <<lastHead, fsChanged>>
    /\ reported' = strategy'
    /\ pc' = "idle"
    /\ UNCHANGED <<tree, git, graph, list, known, snapshot, sinceFull,
                   sinceUpgrade, snap, run, faults>>
    /\ Explain("baseline")

\* Counters stop where they no longer make a difference.
Tick == sinceFull' = Min({sinceFull + 1, FullInterval})
TickUpgrade == sinceUpgrade' = Min({sinceUpgrade + 1, UpgradeInterval})

\* Mutant: fsnotify and directory mtimes are trusted, as git is.
NeverForced(changed) == pc' = IF changed THEN "capture" ELSE "idle"

\* The sentinel's answer, or in the lower tiers its turn, starts a full snapshot.
Decide(changed) ==
    LET forceFull == strategy' # "git" /\ sinceFull' >= FullInterval IN
    pc' = IF changed \/ forceFull THEN "capture" ELSE "idle"

\* Mutant: the sentinel's head advances before the outcome of the run is known.
AdvanceAtOnce(changed) == lastHead' = head

AdvanceIfQuiet(changed) == lastHead' = IF changed THEN lastHead ELSE head

\* gitSentinel.
PollGit ==
    LET changed == Moved \/ ~Clean IN
    /\ Due /\ snapshot # None
    /\ strategy = "git" /\ git = "ok"
    /\ Tick /\ TickUpgrade
    /\ AdvanceIfQuiet(changed)
    /\ UNCHANGED strategy /\ Decide(changed)
    /\ UNCHANGED <<tree, git, graph, list, known, snapshot, reported, flags,
                   snap, run, faults>>
    /\ IF lastHead = NoHead THEN Explain("headless") ELSE UNCHANGED missed

\* downgradeStrategy, and the sentinel of the new tier.
PollWithoutGit ==
    /\ Due /\ snapshot # None
    /\ strategy = "git" /\ git # "ok"
    /\ Tick /\ sinceUpgrade' = 0
    /\ initFSNotify
    /\ fsChanged' = (fsChanged /\ strategy' # "fsnotify")
    /\ reported' = strategy'
    /\ Decide(fsChanged /\ strategy' = "fsnotify")
    /\ UNCHANGED <<tree, git, graph, list, known, snapshot, lastHead, snap, run,
                   faults, missed>>

\* Mutant: git takes over and the fsnotify watcher goes on unread.
UpgradeLeavesWatcher ==
    IF git # "none"
    THEN strategy' = "git" /\ lastHead' = HeadRead /\ UNCHANGED <<fsWatcher, dirChanged>>
    ELSE UNCHANGED <<strategy, lastHead, fsWatcher, dirChanged>>

\* Mutant: each attempt climbs one tier only.
OneTierUp ==
    CASE git # "none" /\ strategy = "fsnotify" ->
            /\ strategy' = "git" /\ lastHead' = HeadRead
            /\ fsWatcher' = FALSE /\ dirChanged' = FALSE
      [] strategy = "dirmtime" ->
            initFSNotify /\ UNCHANGED lastHead
      [] OTHER ->
            UNCHANGED <<strategy, lastHead, fsWatcher>> /\ dirChanged' = FALSE

tryUpgradeStrategy ==
    CASE git # "none" ->
            /\ strategy' = "git" /\ lastHead' = HeadRead
            /\ fsWatcher' = FALSE /\ dirChanged' = FALSE
      [] git = "none" /\ strategy = "dirmtime" ->
            initFSNotify /\ UNCHANGED lastHead
      [] OTHER ->
            UNCHANGED <<strategy, lastHead, fsWatcher>> /\ dirChanged' = FALSE

UpgradeIfDue ==
    IF sinceUpgrade + 1 >= UpgradeInterval
    THEN sinceUpgrade' = 0 /\ tryUpgradeStrategy
    ELSE /\ TickUpgrade
         /\ UNCHANGED <<strategy, lastHead, fsWatcher>> /\ dirChanged' = FALSE

\* The flag of fsnotify, or the directories' mtimes, and every so many polls an
\* attempt at a higher tier.
PollFiles ==
    LET changed == IF strategy = "fsnotify" THEN fsChanged ELSE dirChanged IN
    /\ Due /\ snapshot # None
    /\ strategy \in {"fsnotify", "dirmtime"}
    /\ Tick
    /\ fsChanged' = (fsChanged /\ strategy # "fsnotify")
    /\ UpgradeIfDue
    /\ reported' = strategy'
    /\ Decide(changed)
    /\ UNCHANGED <<tree, git, graph, list, known, snapshot, snap, run, faults>>
    /\ Explain("upgrade")

-----------------------------------------------------------------------------
(* fullSnapshotAndIndex.                                                   *)

Capture ==
    /\ pc = "capture"
    /\ snap' = stamp /\ sinceFull' = 0
    /\ pc' = IF stamp = snapshot /\ strategy # "git" THEN "idle" ELSE "index"
    /\ UNCHANGED <<tree, git, graph, list, known, snapshot, strategy, lastHead,
                   sinceUpgrade, reported, flags, run, faults, missed>>

CaptureFails ==
    /\ pc = "capture"
    /\ Fault
    /\ pc' = "idle"
    /\ UNCHANGED <<tree, git, graph, list, state, flags, snap, run, missed>>

\* Mutant: the snapshot is kept before the outcome of the run is known.
SnapshotFirst ==
    /\ pc = "index" /\ graph # NoGraph
    /\ run' = [text |-> text, head |-> head]
    /\ snapshot' = snap
    /\ pc' = "indexing"
    /\ UNCHANGED <<tree, git, graph, list, known, strategy, lastHead, sinceFull,
                   sinceUpgrade, reported, flags, snap, faults, missed>>

IndexBegin ==
    /\ pc = "index" /\ graph # NoGraph
    /\ run' = [text |-> text, head |-> head]
    /\ pc' = "indexing"
    /\ UNCHANGED <<tree, git, graph, list, state, flags, snap, faults, missed>>

\* indexMu is taken, the project was deleted, or the run fails as a whole.
IndexFails ==
    /\ \/ pc \in {"index", "indexing"} /\ Fault
       \/ pc = "index" /\ graph = NoGraph /\ UNCHANGED faults
    /\ pc' = "idle"
    /\ UNCHANGED <<tree, git, graph, list, state, flags, snap, run, missed>>

Same == run = [text |-> text, head |-> head]

\* persistCoherentIndexIdentity refuses a checkout that changed during the run;
\* then "snapshot and git head stay un-advanced".
IndexEnd ==
    /\ pc = "indexing"
    /\ graph' = IF graph = NoGraph THEN NoGraph
                ELSE IF text = run.text THEN text ELSE Torn
    /\ IF Same THEN snapshot' = snap /\ pc' = "advance"
               ELSE UNCHANGED snapshot /\ pc' = "idle"
    /\ UNCHANGED <<tree, git, list, known, strategy, lastHead, sinceFull,
                   sinceUpgrade, reported, flags, snap, run, faults>>
    /\ IF graph' = text THEN missed' = {} ELSE Explain("returned")

advanceGitHead ==
    /\ pc = "advance"
    /\ lastHead' = IF strategy = "git" /\ git = "ok" THEN head ELSE lastHead
    /\ pc' = "idle"
    /\ UNCHANGED <<tree, git, graph, list, known, snapshot, strategy, sinceFull,
                   sinceUpgrade, reported, flags, snap, run, faults>>
    /\ Explain("late")

-----------------------------------------------------------------------------
Init ==
    /\ text = 1 /\ stamp = 1 /\ commits = <<1>> /\ head = 1
    /\ git \in {"none", "ok"}
    /\ graph = NoGraph /\ watched = FALSE /\ deleting = FALSE
    /\ known = FALSE /\ snapshot = None /\ strategy = "auto" /\ lastHead = NoHead
    /\ fsWatcher = FALSE /\ fsChanged = FALSE /\ dirChanged = FALSE
    /\ sinceFull = 0 /\ sinceUpgrade = 0 /\ reported = "none"
    /\ pc = "idle" /\ snap = None /\ run = [text |-> 1, head |-> 1]
    /\ faults = 0 /\ missed = {}

Files == Edit \/ Commit \/ Checkout \/ GitChanges
Tools == IndexRepository \/ TouchProject \/ DeleteProject \/ Unwatch
Sentinel == Prune \/ Baseline \/ Probe \/ PollGit \/ PollWithoutGit \/ PollFiles
Indexing == \/ Capture \/ CaptureFails \/ IndexBegin \/ IndexFails \/ IndexEnd
            \/ advanceGitHead

Next == Files \/ Tools \/ Sentinel \/ Indexing

\* The goroutine of Run polls again and again.
Fairness == WF_vars(Sentinel \/ Indexing)
Spec == Init /\ [][Next]_vars /\ Fairness

-----------------------------------------------------------------------------
(* Properties.                                                             *)

\* Every variable has its type; the strategy is chosen once there is a snapshot.
TypeOK ==
    /\ stamp \in 1..MaxStamp /\ text \in 1..stamp /\ graph \in (1..stamp) \cup {NoGraph, Torn}
    /\ commits \in Seq(1..stamp) /\ head \in 1..Len(commits)
    /\ lastHead \in 0..Len(commits)
    /\ git \in {"none", "broken", "ok"} /\ faults \in 0..MaxFaults
    /\ watched \in BOOLEAN /\ deleting \in BOOLEAN /\ known \in BOOLEAN
    /\ snapshot \in 0..stamp /\ snap \in 0..stamp
    /\ run \in [text : 1..stamp, head : 1..Len(commits)]
    /\ fsWatcher \in BOOLEAN /\ fsChanged \in BOOLEAN /\ dirChanged \in BOOLEAN
    /\ sinceFull \in 0..FullInterval /\ sinceUpgrade \in 0..UpgradeInterval
    /\ strategy \in Tiers /\ reported \in (Tiers \ {"auto"}) \cup {"none"}
    /\ pc \in {"idle", "probe", "capture", "index", "indexing", "advance"}
    /\ missed \subseteq {"returned", "baseline", "headless", "upgrade", "late"}
    /\ strategy = "auto" <=> snapshot = None \/ pc = "probe"

\* An fsnotify watcher and its goroutine run exactly while somebody reads their
\* flag, through every downgrade, upgrade and prune, and "Strategies() stays in
\* sync" (setStrategy).
WatcherIsRead ==
    /\ fsWatcher <=> strategy = "fsnotify"
    /\ reported = IF strategy = "auto" THEN "none" ELSE strategy

\* A snapshot that equals the files vouches for the graph, whatever failed or
\* changed between capture, run and assignment; only the first one may have
\* taken in changes that were never indexed.
SnapshotVouches ==
    known /\ snapshot = stamp /\ graph # NoGraph /\ "baseline" \notin missed
        => graph = text

\* Under git, a clean checkout at lastHead is the one in the graph, unless it
\* returned there, or HEAD was read late, unread, or read for the first time.
GitMissesNothingElse == Overlooked => missed # {}

\* "Git sentinel catches everything" (pollProject): once a run has brought the
\* graph up to date, a checkout that git calls unchanged is in the graph.
GitCatchesEverything == missed \subseteq {"returned"} => ~Overlooked

\* A change is indexed in the end, whichever tier is in use, however many runs
\* fail before and whatever events get lost, if the project stays watched and
\* git does not overlook the change.
ChangesGetIndexed ==
    <>[](watched /\ missed = {}) /\ <>[](graph # NoGraph) => <>[](graph = text)

\* A project that was downgraded returns to git "without operator intervention"
\* when git works again (pollProject).
GitComesBack ==
    <>[](watched /\ git = "ok") /\ <>[](graph # NoGraph) => <>[](strategy = "git")
=============================================================================
