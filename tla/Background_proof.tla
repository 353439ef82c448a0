------------------------- MODULE Background_proof -------------------------
(***************************************************************************)
(* Proofs about what works in the background, Watcher and WorkerPool: the  *)
(* watcher's three invariants for any number of edits, commits, faults and *)
(* polls, the pool's for any number of calls and any size.  The inductive  *)
(* invariants add to them that a change during a run leaves the snapshot   *)
(* behind the files; who a busy worker works for, and what the end of      *)
(* Close implies.                                                          *)
(***************************************************************************)
EXTENDS Watcher, WorkerPool, FiniteSetTheorems, TLAPS

-----------------------------------------------------------------------------
(* The watcher.                                                            *)

\* A run that reads the files while they change cannot match the snapshot that
\* is already there.
RunIsBehind == pc = "indexing" /\ text # run.text => snapshot # stamp

\* Strategies and runs come after a snapshot.
Captured ==
    /\ pc # "idle" => snapshot # None
    /\ pc \in {"index", "indexing"} => snap # None

IInv == TypeOK /\ Captured /\ WatcherIsRead /\ RunIsBehind /\ SnapshotVouches /\ GitMissesNothingElse

-----------------------------------------------------------------------------
(* Types of the watcher.                                                   *)

LEMMA MinOfTwo ==
    ASSUME NEW a \in Int, NEW b \in Int
    PROVE  Min({a, b}) = IF a <= b THEN a ELSE b
  <1>1. CASE a <= b
    <2>1. a \in {a, b} /\ \A y \in {a, b} : a <= y BY <1>1
    <2>2. \A x \in {a, b} : (\A y \in {a, b} : x <= y) => x = a BY <1>1
    <2> QED BY <1>1, <2>1, <2>2 DEF Min
  <1>2. CASE ~(a <= b)
    <2>1. b \in {a, b} /\ \A y \in {a, b} : b <= y BY <1>2
    <2>2. \A x \in {a, b} : (\A y \in {a, b} : x <= y) => x = b BY <1>2
    <2> QED BY <1>2, <2>1, <2>2 DEF Min
  <1> QED BY <1>1, <1>2

\* The counters of polls stop at their limits.
LEMMA Counts ==
    ASSUME TypeOK
    PROVE  /\ Tick => sinceFull' \in 0..FullInterval
           /\ TickUpgrade => sinceUpgrade' \in 0..UpgradeInterval
  <1>1. /\ FullInterval \in Nat /\ UpgradeInterval \in Nat
        /\ sinceFull \in 0..FullInterval /\ sinceUpgrade \in 0..UpgradeInterval
    BY WatcherAssumption DEF TypeOK
  <1>2. Min({sinceFull + 1, FullInterval}) \in 0..FullInterval BY <1>1, MinOfTwo
  <1>3. Min({sinceUpgrade + 1, UpgradeInterval}) \in 0..UpgradeInterval BY <1>1, MinOfTwo
  <1> QED BY <1>2, <1>3 DEF Tick, TickUpgrade

TreeType ==
    /\ stamp \in 1..MaxStamp /\ text \in 1..stamp
    /\ commits \in Seq(1..stamp) /\ head \in 1..Len(commits)
    /\ lastHead \in 0..Len(commits) /\ run \in [text : 1..stamp, head : 1..Len(commits)]

\* Contents and commits only grow.
LEMMA TreeStep == TypeOK /\ [Next]_vars => TreeType'
  <1> SUFFICES ASSUME TypeOK, [Next]_vars PROVE TreeType' OBVIOUS
  <1> USE WatcherAssumption DEF TypeOK, TreeType
  <1>0. Len(commits) \in Nat /\ stamp \in Nat OBVIOUS
  <1>1. CASE Edit
    <2>1. commits \in Seq(1..(stamp + 1))
      <3>1. \A i \in DOMAIN commits : commits[i] \in 1..(stamp + 1) OBVIOUS
      <3> QED BY <3>1
    <2> QED BY <1>0, <1>1, <2>1 DEF Edit, poll, state
  <1>2. CASE Commit BY <1>0, <1>2 DEF Commit, poll, state
  <1>3. CASE Checkout
    <2>1. commits \in Seq(1..(stamp + 1))
      <3>1. \A i \in DOMAIN commits : commits[i] \in 1..(stamp + 1) OBVIOUS
      <3> QED BY <3>1
    <2> QED BY <1>0, <1>3, <2>1 DEF Checkout, poll, state
  <1>4. CASE GitChanges BY <1>4 DEF GitChanges, tree, poll, state
  <1>5. CASE Tools
    BY <1>5 DEF Tools, IndexRepository, TouchProject, DeleteProject, Unwatch, tree, poll, state
  <1>6. CASE UNCHANGED <<tree, run>> /\ lastHead' \in {lastHead, head, NoHead}
    BY <1>0, <1>6 DEF tree, NoHead
  <1>7. CASE Sentinel
    BY <1>6, <1>7 DEF Sentinel, Prune, Baseline, Probe, PollGit, PollWithoutGit, PollFiles, HeadRead,
                      initFSNotify, AdvanceIfQuiet, UpgradeIfDue, tryUpgradeStrategy, poll, state
  <1>8. CASE IndexBegin BY <1>8 DEF IndexBegin, tree, state
  <1>9. CASE Indexing /\ ~IndexBegin
    <2>1. UNCHANGED run /\ UNCHANGED tree /\ lastHead' \in {lastHead, head}
      BY <1>9 DEF Indexing, Capture, CaptureFails, IndexFails, IndexEnd, advanceGitHead, state, poll
    <2> QED BY <1>6, <2>1
  <1> QED BY <1>1, <1>2, <1>3, <1>4, <1>5, <1>7, <1>8, <1>9 DEF Next, Files, vars, tree, poll, state

\* The rest of TypeOK: what is bounded by stamp, the flags, the place of the poll.
StampType ==
    graph \in (1..stamp) \cup {NoGraph, Torn} /\ snapshot \in 0..stamp /\ snap \in 0..stamp
FlagType ==
    /\ watched \in BOOLEAN /\ deleting \in BOOLEAN /\ known \in BOOLEAN
    /\ fsWatcher \in BOOLEAN /\ fsChanged \in BOOLEAN /\ dirChanged \in BOOLEAN
CountType ==
    /\ git \in {"none", "broken", "ok"} /\ faults \in 0..MaxFaults
    /\ sinceFull \in 0..FullInterval /\ sinceUpgrade \in 0..UpgradeInterval
    /\ missed \subseteq {"returned", "baseline", "headless", "upgrade", "late"}
PlaceType ==
    /\ strategy \in Tiers /\ reported \in (Tiers \ {"auto"}) \cup {"none"}
    /\ pc \in {"idle", "probe", "capture", "index", "indexing", "advance"}
    /\ strategy = "auto" <=> snapshot = None \/ pc = "probe"

LEMMA StampStep == TypeOK /\ [Next]_vars => StampType'
  <1> SUFFICES ASSUME TypeOK, [Next]_vars PROVE StampType' OBVIOUS
  <1>0. StampType /\ stamp \in Nat /\ text \in 1..stamp
    BY WatcherAssumption DEF TypeOK, StampType
  <1> USE <1>0 DEF StampType, None, NoGraph, Torn, tree, list, state, flags, poll
  <1>1. CASE Edit BY <1>1 DEF Edit, Notice
  <1>2. CASE Commit BY <1>2 DEF Commit
  <1>3. CASE Checkout BY <1>3 DEF Checkout, Notice
  <1>4. CASE GitChanges BY <1>4 DEF GitChanges
  <1>5. CASE IndexRepository BY <1>5 DEF IndexRepository
  <1>6. CASE TouchProject BY <1>6 DEF TouchProject
  <1>7. CASE DeleteProject BY <1>7 DEF DeleteProject
  <1>8. CASE Unwatch BY <1>8 DEF Unwatch
  <1>9. CASE Prune BY <1>9 DEF Prune
  <1>10. CASE Baseline BY <1>10 DEF Baseline, Due
  <1>11. CASE Probe BY <1>11 DEF Probe, initFSNotify
  <1>12. CASE PollGit BY <1>12 DEF PollGit, Due, Decide
  <1>13. CASE PollWithoutGit BY <1>13 DEF PollWithoutGit, Due, Decide, initFSNotify
  <1>14. CASE PollFiles BY <1>14 DEF PollFiles, Due, Decide, UpgradeIfDue, tryUpgradeStrategy, initFSNotify
  <1>15. CASE Capture BY <1>15 DEF Capture
  <1>16. CASE CaptureFails BY <1>16 DEF CaptureFails
  <1>17. CASE IndexBegin BY <1>17 DEF IndexBegin
  <1>18. CASE IndexFails BY <1>18 DEF IndexFails
  <1>19. CASE IndexEnd BY <1>19 DEF IndexEnd, Same
  <1>20. CASE advanceGitHead BY <1>20 DEF advanceGitHead
  <1>21. CASE UNCHANGED vars BY <1>21 DEF vars
  <1> QED BY <1>1, <1>2, <1>3, <1>4, <1>5, <1>6, <1>7, <1>8, <1>9, <1>10, <1>11, <1>12, <1>13, <1>14,
             <1>15, <1>16, <1>17, <1>18, <1>19, <1>20, <1>21 DEF Next, Files, Tools, Sentinel, Indexing

LEMMA FlagStep == TypeOK /\ [Next]_vars => FlagType'
  <1> SUFFICES ASSUME TypeOK, [Next]_vars PROVE FlagType' OBVIOUS
  <1>0. FlagType /\ stamp \in Nat BY WatcherAssumption DEF TypeOK, FlagType
  <1> USE <1>0 DEF FlagType, tree, list, state, flags, poll
  <1>1. CASE Edit BY <1>1 DEF Edit, Notice
  <1>2. CASE Commit BY <1>2 DEF Commit
  <1>3. CASE Checkout BY <1>3 DEF Checkout, Notice
  <1>4. CASE GitChanges BY <1>4 DEF GitChanges
  <1>5. CASE IndexRepository BY <1>5 DEF IndexRepository
  <1>6. CASE TouchProject BY <1>6 DEF TouchProject
  <1>7. CASE DeleteProject BY <1>7 DEF DeleteProject
  <1>8. CASE Unwatch BY <1>8 DEF Unwatch
  <1>9. CASE Prune BY <1>9 DEF Prune
  <1>10. CASE Baseline BY <1>10 DEF Baseline, Due
  <1>11. CASE Probe BY <1>11 DEF Probe, initFSNotify
  <1>12. CASE PollGit BY <1>12 DEF PollGit, Due, Decide
  <1>13. CASE PollWithoutGit BY <1>13 DEF PollWithoutGit, Due, Decide, initFSNotify
  <1>14. CASE PollFiles BY <1>14 DEF PollFiles, Due, Decide, UpgradeIfDue, tryUpgradeStrategy, initFSNotify
  <1>15. CASE Capture BY <1>15 DEF Capture
  <1>16. CASE CaptureFails BY <1>16 DEF CaptureFails
  <1>17. CASE IndexBegin BY <1>17 DEF IndexBegin
  <1>18. CASE IndexFails BY <1>18 DEF IndexFails
  <1>19. CASE IndexEnd BY <1>19 DEF IndexEnd, Same
  <1>20. CASE advanceGitHead BY <1>20 DEF advanceGitHead
  <1>21. CASE UNCHANGED vars BY <1>21 DEF vars
  <1> QED BY <1>1, <1>2, <1>3, <1>4, <1>5, <1>6, <1>7, <1>8, <1>9, <1>10, <1>11, <1>12, <1>13, <1>14,
             <1>15, <1>16, <1>17, <1>18, <1>19, <1>20, <1>21 DEF Next, Files, Tools, Sentinel, Indexing

LEMMA CountStep == TypeOK /\ [Next]_vars => CountType'
  <1> SUFFICES ASSUME TypeOK, [Next]_vars PROVE CountType' OBVIOUS
  <1>0. CountType /\ stamp \in Nat /\ MaxFaults \in Nat /\ FullInterval \in Nat /\ UpgradeInterval \in Nat BY WatcherAssumption DEF TypeOK, CountType
  <1> USE <1>0, Counts DEF CountType, Fault, Explain, tree, list, state, flags, poll
  <1>1. CASE Edit BY <1>1 DEF Edit, Notice
  <1>2. CASE Commit BY <1>2 DEF Commit
  <1>3. CASE Checkout BY <1>3 DEF Checkout, Notice
  <1>4. CASE GitChanges BY <1>4 DEF GitChanges
  <1>5. CASE IndexRepository BY <1>5 DEF IndexRepository
  <1>6. CASE TouchProject BY <1>6 DEF TouchProject
  <1>7. CASE DeleteProject BY <1>7 DEF DeleteProject
  <1>8. CASE Unwatch BY <1>8 DEF Unwatch
  <1>9. CASE Prune BY <1>9 DEF Prune
  <1>10. CASE Baseline BY <1>10 DEF Baseline, Due
  <1>11. CASE Probe BY <1>11 DEF Probe, initFSNotify
  <1>12. CASE PollGit BY <1>12 DEF PollGit, Due, Decide
  <1>13. CASE PollWithoutGit BY <1>13 DEF PollWithoutGit, Due, Decide, initFSNotify
  <1>14. CASE PollFiles BY <1>14 DEF PollFiles, Due, Decide, UpgradeIfDue, tryUpgradeStrategy, initFSNotify
  <1>15. CASE Capture BY <1>15 DEF Capture
  <1>16. CASE CaptureFails BY <1>16 DEF CaptureFails
  <1>17. CASE IndexBegin BY <1>17 DEF IndexBegin
  <1>18. CASE IndexFails BY <1>18 DEF IndexFails
  <1>19. CASE IndexEnd BY <1>19 DEF IndexEnd, Same
  <1>20. CASE advanceGitHead BY <1>20 DEF advanceGitHead
  <1>21. CASE UNCHANGED vars BY <1>21 DEF vars
  <1> QED BY <1>1, <1>2, <1>3, <1>4, <1>5, <1>6, <1>7, <1>8, <1>9, <1>10, <1>11, <1>12, <1>13, <1>14,
             <1>15, <1>16, <1>17, <1>18, <1>19, <1>20, <1>21 DEF Next, Files, Tools, Sentinel, Indexing

LEMMA PlaceStep == TypeOK /\ Captured /\ [Next]_vars => PlaceType'
  <1> SUFFICES ASSUME TypeOK, Captured, [Next]_vars PROVE PlaceType' OBVIOUS
  <1>0. PlaceType /\ stamp \in Nat BY WatcherAssumption DEF TypeOK, PlaceType
  <1> USE <1>0 DEF PlaceType, Captured, Tiers, None, tree, list, state, flags, poll
  <1>1. CASE Edit BY <1>1 DEF Edit, Notice
  <1>2. CASE Commit BY <1>2 DEF Commit
  <1>3. CASE Checkout BY <1>3 DEF Checkout, Notice
  <1>4. CASE GitChanges BY <1>4 DEF GitChanges
  <1>5. CASE IndexRepository BY <1>5 DEF IndexRepository
  <1>6. CASE TouchProject BY <1>6 DEF TouchProject
  <1>7. CASE DeleteProject BY <1>7 DEF DeleteProject
  <1>8. CASE Unwatch BY <1>8 DEF Unwatch
  <1>9. CASE Prune BY <1>9 DEF Prune
  <1>10. CASE Baseline BY <1>10 DEF Baseline, Due
  <1>11. CASE Probe BY <1>11 DEF Probe, initFSNotify
  <1>12. CASE PollGit BY <1>12 DEF PollGit, Due, Decide
  <1>13. CASE PollWithoutGit BY <1>13 DEF PollWithoutGit, Due, Decide, initFSNotify
  <1>14. CASE PollFiles BY <1>14 DEF PollFiles, Due, Decide, UpgradeIfDue, tryUpgradeStrategy, initFSNotify
  <1>15. CASE Capture BY <1>15 DEF Capture
  <1>16. CASE CaptureFails BY <1>16 DEF CaptureFails
  <1>17. CASE IndexBegin BY <1>17 DEF IndexBegin
  <1>18. CASE IndexFails BY <1>18 DEF IndexFails
  <1>19. CASE IndexEnd BY <1>19 DEF IndexEnd, Same
  <1>20. CASE advanceGitHead BY <1>20 DEF advanceGitHead
  <1>21. CASE UNCHANGED vars BY <1>21 DEF vars
  <1> QED BY <1>1, <1>2, <1>3, <1>4, <1>5, <1>6, <1>7, <1>8, <1>9, <1>10, <1>11, <1>12, <1>13, <1>14,
             <1>15, <1>16, <1>17, <1>18, <1>19, <1>20, <1>21 DEF Next, Files, Tools, Sentinel, Indexing

LEMMA CapturedStep == TypeOK /\ Captured /\ [Next]_vars => Captured'
  <1> SUFFICES ASSUME TypeOK, Captured, [Next]_vars PROVE Captured' OBVIOUS
  <1>0. stamp # None BY DEF TypeOK, None
  <1> USE <1>0 DEF Captured, tree, list, state, flags, poll
  <1>1. CASE Edit BY <1>1 DEF Edit
  <1>2. CASE Commit BY <1>2 DEF Commit
  <1>3. CASE Checkout BY <1>3 DEF Checkout
  <1>4. CASE GitChanges BY <1>4 DEF GitChanges
  <1>5. CASE Tools BY <1>5 DEF Tools, IndexRepository, TouchProject, DeleteProject, Unwatch
  <1>6. CASE Prune BY <1>6 DEF Prune
  <1>7. CASE Baseline BY <1>7 DEF Baseline, Due
  <1>8. CASE Probe BY <1>8 DEF Probe
  <1>9. CASE PollGit BY <1>9 DEF PollGit, Due, Decide
  <1>10. CASE PollWithoutGit BY <1>10 DEF PollWithoutGit, Due, Decide
  <1>11. CASE PollFiles BY <1>11 DEF PollFiles, Due, Decide
  <1>12. CASE Capture BY <1>12 DEF Capture
  <1>13. CASE CaptureFails BY <1>13 DEF CaptureFails
  <1>14. CASE IndexBegin BY <1>14 DEF IndexBegin
  <1>15. CASE IndexFails BY <1>15 DEF IndexFails
  <1>16. CASE IndexEnd BY <1>16 DEF IndexEnd
  <1>17. CASE advanceGitHead BY <1>17 DEF advanceGitHead
  <1>18. CASE UNCHANGED vars BY <1>18 DEF vars
  <1> QED BY <1>1, <1>2, <1>3, <1>4, <1>5, <1>6, <1>7, <1>8, <1>9, <1>10, <1>11, <1>12, <1>13, <1>14,
             <1>15, <1>16, <1>17, <1>18 DEF Next, Files, Sentinel, Indexing

LEMMA TypeStep == TypeOK /\ Captured /\ [Next]_vars => TypeOK'
  BY TreeStep, StampStep, FlagStep, CountStep, PlaceStep
     DEF TypeOK, TreeType, StampType, FlagType, CountType, PlaceType
-----------------------------------------------------------------------------
(* The watcher's invariants.                                               *)

\* Every change of tier starts or stops the fsnotify watcher.
LEMMA WatcherStep == TypeOK /\ Captured /\ WatcherIsRead /\ [Next]_vars => WatcherIsRead'
  <1> SUFFICES ASSUME TypeOK, Captured, WatcherIsRead, [Next]_vars PROVE WatcherIsRead' OBVIOUS
  <1>0. /\ strategy \in Tiers /\ (strategy = "auto" <=> snapshot = None \/ pc = "probe")
        /\ fsWatcher \in BOOLEAN /\ WatcherIsRead
    BY DEF TypeOK
  <1> USE <1>0
  <1> USE DEF WatcherIsRead, Tiers, tree, list, state, flags, poll
  <1>1. CASE Edit BY <1>1 DEF Edit, Notice
  <1>2. CASE Commit BY <1>2 DEF Commit
  <1>3. CASE Checkout BY <1>3 DEF Checkout, Notice
  <1>4. CASE GitChanges BY <1>4 DEF GitChanges
  <1>5. CASE IndexRepository BY <1>5 DEF IndexRepository
  <1>6. CASE TouchProject BY <1>6 DEF TouchProject
  <1>7. CASE DeleteProject BY <1>7 DEF DeleteProject
  <1>8. CASE Unwatch BY <1>8 DEF Unwatch
  <1>9. CASE Prune BY <1>9 DEF Prune
  <1>10. CASE Baseline BY <1>10 DEF Baseline, Due
  <1>11. CASE Probe BY <1>11 DEF Probe, initFSNotify
  <1>12. CASE PollGit BY <1>12 DEF PollGit, Due, Decide, AdvanceIfQuiet
  <1>13. CASE PollWithoutGit BY <1>13 DEF PollWithoutGit, Due, Decide, initFSNotify
  <1>14. CASE PollFiles BY <1>14 DEF PollFiles, Due, Decide, UpgradeIfDue, tryUpgradeStrategy, initFSNotify
  <1>15. CASE Capture BY <1>15 DEF Capture
  <1>16. CASE CaptureFails BY <1>16 DEF CaptureFails
  <1>17. CASE IndexBegin BY <1>17 DEF IndexBegin
  <1>18. CASE IndexFails BY <1>18 DEF IndexFails
  <1>19. CASE IndexEnd BY <1>19 DEF IndexEnd, Same
  <1>20. CASE advanceGitHead BY <1>20 DEF advanceGitHead
  <1>21. CASE UNCHANGED vars BY <1>21 DEF vars
  <1> QED BY <1>1, <1>2, <1>3, <1>4, <1>5, <1>6, <1>7, <1>8, <1>9, <1>10, <1>11, <1>12, <1>13, <1>14,
             <1>15, <1>16, <1>17, <1>18, <1>19, <1>20, <1>21 DEF Next, Files, Tools, Sentinel, Indexing

\* What a run has read and what a snapshot has seen.
LEMMA VouchStep ==
    TypeOK /\ RunIsBehind /\ SnapshotVouches /\ [Next]_vars => RunIsBehind' /\ SnapshotVouches'
  <1> SUFFICES ASSUME TypeOK, RunIsBehind, SnapshotVouches, [Next]_vars
               PROVE  RunIsBehind' /\ SnapshotVouches'
    OBVIOUS
  <1>0. stamp \in Nat \ {0} /\ snapshot \in 0..stamp BY WatcherAssumption DEF TypeOK
  <1> USE <1>0
  <1> USE DEF RunIsBehind, SnapshotVouches, Explain, None, NoGraph, tree, list, state, flags, poll
  <1>1. CASE Edit BY <1>1 DEF Edit, Notice
  <1>2. CASE Commit BY <1>2 DEF Commit
  <1>3. CASE Checkout BY <1>3 DEF Checkout, Notice
  <1>4. CASE GitChanges BY <1>4 DEF GitChanges
  <1>5. CASE IndexRepository BY <1>5 DEF IndexRepository
  <1>6. CASE TouchProject BY <1>6 DEF TouchProject
  <1>7. CASE DeleteProject BY <1>7 DEF DeleteProject
  <1>8. CASE Unwatch BY <1>8 DEF Unwatch
  <1>9. CASE Prune BY <1>9 DEF Prune
  <1>10. CASE Baseline BY <1>10 DEF Baseline, Due
  <1>11. CASE Probe BY <1>11 DEF Probe, initFSNotify
  <1>12. CASE PollGit BY <1>12 DEF PollGit, Due, Decide, AdvanceIfQuiet
  <1>13. CASE PollWithoutGit BY <1>13 DEF PollWithoutGit, Due, Decide, initFSNotify
  <1>14. CASE PollFiles BY <1>14 DEF PollFiles, Due, Decide, UpgradeIfDue, tryUpgradeStrategy, initFSNotify
  <1>15. CASE Capture BY <1>15 DEF Capture
  <1>16. CASE CaptureFails BY <1>16 DEF CaptureFails
  <1>17. CASE IndexBegin BY <1>17 DEF IndexBegin
  <1>18. CASE IndexFails BY <1>18 DEF IndexFails
  <1>19. CASE IndexEnd BY <1>19 DEF IndexEnd, Same
  <1>20. CASE advanceGitHead BY <1>20 DEF advanceGitHead
  <1>21. CASE UNCHANGED vars BY <1>21 DEF vars
  <1> QED BY <1>1, <1>2, <1>3, <1>4, <1>5, <1>6, <1>7, <1>8, <1>9, <1>10, <1>11, <1>12, <1>13, <1>14,
             <1>15, <1>16, <1>17, <1>18, <1>19, <1>20, <1>21 DEF Next, Files, Tools, Sentinel, Indexing

\* What git does not see.
LEMMA GitStep == TypeOK /\ Captured /\ GitMissesNothingElse /\ [Next]_vars => GitMissesNothingElse'
  <1> SUFFICES ASSUME TypeOK, Captured, GitMissesNothingElse, [Next]_vars PROVE GitMissesNothingElse'
    OBVIOUS
  <1>0. /\ stamp \in Nat /\ commits \in Seq(1..stamp) /\ head \in 1..Len(commits)
        /\ lastHead \in 0..Len(commits) /\ Len(commits) \in Nat /\ commits[head] \in 1..stamp
        /\ (strategy = "auto" <=> snapshot = None \/ pc = "probe")
    BY WatcherAssumption DEF TypeOK
  <1> USE <1>0
  <1> USE DEF GitMissesNothingElse, Overlooked, Clean, Moved, Explain, NoHead, tree, list, state, flags, poll
  <1>1. CASE Edit BY <1>1 DEF Edit, Notice
  <1>2. CASE Commit BY <1>2 DEF Commit
  <1>3. CASE Checkout BY <1>3 DEF Checkout, Notice
  <1>4. CASE GitChanges BY <1>4 DEF GitChanges
  <1>5. CASE IndexRepository BY <1>5 DEF IndexRepository
  <1>6. CASE TouchProject BY <1>6 DEF TouchProject
  <1>7. CASE DeleteProject BY <1>7 DEF DeleteProject
  <1>8. CASE Unwatch BY <1>8 DEF Unwatch
  <1>9. CASE Prune BY <1>9 DEF Prune
  <1>10. CASE Baseline BY <1>10 DEF Baseline, Due
  <1>11. CASE Probe BY <1>11 DEF Probe, initFSNotify
  <1>12. CASE PollGit BY <1>12 DEF PollGit, Due, Decide, AdvanceIfQuiet
  <1>13. CASE PollWithoutGit BY <1>13 DEF PollWithoutGit, Due, Decide, initFSNotify
  <1>14. CASE PollFiles BY <1>14 DEF PollFiles, Due, Decide, UpgradeIfDue, tryUpgradeStrategy, initFSNotify
  <1>15. CASE Capture BY <1>15 DEF Capture
  <1>16. CASE CaptureFails BY <1>16 DEF CaptureFails
  <1>17. CASE IndexBegin BY <1>17 DEF IndexBegin
  <1>18. CASE IndexFails BY <1>18 DEF IndexFails
  <1>19. CASE IndexEnd BY <1>19 DEF IndexEnd, Same
  <1>20. CASE advanceGitHead BY <1>20 DEF advanceGitHead
  <1>21. CASE UNCHANGED vars BY <1>21 DEF vars
  <1> QED BY <1>1, <1>2, <1>3, <1>4, <1>5, <1>6, <1>7, <1>8, <1>9, <1>10, <1>11, <1>12, <1>13, <1>14,
             <1>15, <1>16, <1>17, <1>18, <1>19, <1>20, <1>21 DEF Next, Files, Tools, Sentinel, Indexing

LEMMA InitHolds == Init => IInv
  <1> SUFFICES ASSUME Init PROVE IInv OBVIOUS
  <1> USE WatcherAssumption DEF Init, NoHead, None, NoGraph
  <1>1. TypeOK
    <2>1. commits \in Seq(1..stamp) /\ Len(commits) = 1 OBVIOUS
    <2>2. /\ stamp \in 1..MaxStamp /\ text \in 1..stamp /\ head \in 1..Len(commits)
          /\ lastHead \in 0..Len(commits) /\ run \in [text : 1..stamp, head : 1..Len(commits)]
      BY <2>1
    <2>3. FlagType BY DEF FlagType
    <2>4. CountType /\ StampType BY DEF CountType, StampType
    <2>5. PlaceType BY DEF PlaceType, Tiers
    <2> QED BY <2>1, <2>2, <2>3, <2>4, <2>5 DEF TypeOK, FlagType, CountType, StampType, PlaceType
  <1>2. Captured /\ WatcherIsRead BY DEF Captured, WatcherIsRead
  <1>3. RunIsBehind /\ SnapshotVouches BY DEF RunIsBehind, SnapshotVouches
  <1>4. GitMissesNothingElse BY DEF GitMissesNothingElse, Overlooked
  <1> QED BY <1>1, <1>2, <1>3, <1>4 DEF IInv

LEMMA InvStep == IInv /\ [Next]_vars => IInv'
  BY TypeStep, CapturedStep, WatcherStep, VouchStep, GitStep DEF IInv

LEMMA InvHolds == Spec => []IInv
  <1> QED BY InitHolds, InvStep, PTL DEF Spec

\* An fsnotify watcher runs exactly while its flag is read, for any number of
\* polls, edits, commits and faults.
THEOREM WatcherCorrect == Spec => [](TypeOK /\ WatcherIsRead)
  <1>1. IInv => TypeOK /\ WatcherIsRead BY DEF IInv
  <1> QED BY InvHolds, <1>1, PTL

\* A snapshot that equals the files vouches for the graph.
THEOREM SnapshotCorrect == Spec => []SnapshotVouches
  <1>1. IInv => SnapshotVouches BY DEF IInv
  <1> QED BY InvHolds, <1>1, PTL

\* What git cannot see came about in one of the named ways.
THEOREM GitCorrect == Spec => []GitMissesNothingElse
  <1>1. IInv => GitMissesNothingElse BY DEF IInv
  <1> QED BY InvHolds, <1>1, PTL

-----------------------------------------------------------------------------
(* The pool.                                                               *)

\* A busy worker is held by the call whose request it has.
JobsAreHeld ==
    \A w \in Worker : proc[w] \in {"working", "answered", "hung"} =>
        \E c \in Call : holds[c] = w /\ at[c] = "waiting" /\ job[w] = Request(c)

PoolInv ==
    /\ PoolTypeOK /\ SlotsConserved /\ OneUser /\ JobsAreHeld
    /\ returned => drained = N

-----------------------------------------------------------------------------
(* The calls that hold a slot.                                             *)

\* There are finitely many of them.
LEMMA HoldingFinite == Holding \subseteq Call /\ IsFiniteSet(Holding)
  BY PoolAssumption, FS_Subset DEF Holding

\* A call that takes a slot is one more.
LEMMA HoldingEnters ==
    ASSUME PoolTypeOK, NEW c \in Call, NEW x \in InCall, at[c] \notin InCall, Goto(c, x)
    PROVE  /\ Holding' = Holding \cup {c}
           /\ Cardinality(Holding') = Cardinality(Holding) + 1
  <1>1. Holding' = Holding \cup {c} BY DEF PoolTypeOK, Holding, Goto
  <1>2. c \notin Holding BY DEF Holding
  <1> QED BY <1>1, <1>2, HoldingFinite, FS_AddElement

\* A call that lets its slot go is one less.
LEMMA HoldingLeaves ==
    ASSUME PoolTypeOK, NEW c \in Call, at[c] \in InCall, Goto(c, "idle")
    PROVE  /\ Holding' = Holding \ {c}
           /\ Cardinality(Holding') = Cardinality(Holding) - 1
  <1>1. Holding' = Holding \ {c} BY DEF PoolTypeOK, Holding, Goto, InCall
  <1>2. c \in Holding BY DEF Holding
  <1> QED BY <1>1, <1>2, HoldingFinite, FS_RemoveElement

\* A call that goes on within Extract is still counted, one that goes on outside
\* is still not.
LEMMA HoldingStays ==
    ASSUME PoolTypeOK, NEW c \in Call, NEW x, Goto(c, x), at[c] \in InCall <=> x \in InCall
    PROVE  Holding' = Holding
  BY DEF PoolTypeOK, Holding, Goto

-----------------------------------------------------------------------------
(* Types of the pool.                                                      *)

\* PoolTypeOK is inductive by itself.
LEMMA PoolTypeStep == PoolTypeOK /\ [PoolNext]_poolVars => PoolTypeOK'
  <1> SUFFICES ASSUME PoolTypeOK, [PoolNext]_poolVars PROVE PoolTypeOK' OBVIOUS
  <1> USE PoolAssumption DEF PoolTypeOK, Goto, LetGo, InCall, channel, process, calls, close
  <1>1. ASSUME NEW c \in Call, Start(c) PROVE PoolTypeOK' BY <1>1 DEF Start
  <1>2. ASSUME NEW c \in Call, Take(c) PROVE PoolTypeOK' BY <1>2 DEF Take
  <1>3. ASSUME NEW c \in Call, GiveUp(c) PROVE PoolTypeOK' BY <1>3 DEF GiveUp
  <1>4. ASSUME NEW c \in Call, CheckClosed(c) PROVE PoolTypeOK' BY <1>4 DEF CheckClosed, PutBack
  <1>5. ASSUME NEW c \in Call, Spawn(c) PROVE PoolTypeOK' BY <1>5 DEF Spawn
  <1>6. ASSUME NEW c \in Call, SpawnFails(c) PROVE PoolTypeOK' BY <1>6 DEF SpawnFails, PutBack
  <1>7. ASSUME NEW c \in Call, Send(c) PROVE PoolTypeOK' BY <1>7 DEF Send, Request
  <1>8. ASSUME NEW c \in Call, Answer(c) PROVE PoolTypeOK' BY <1>8 DEF Answer, PutBack, NoJob
  <1>9. ASSUME NEW c \in Call, at[c] = "waiting", Replace(c) PROVE PoolTypeOK'
    BY <1>9 DEF Replace, NoJob
  <1>10. ASSUME NEW w \in Worker, RunWorker(w) PROVE PoolTypeOK'
    BY <1>10 DEF RunWorker, Reply, Crash, Hang, Die, Become
  <1>11. ASSUME Close PROVE PoolTypeOK'
    <2>1. CASE CloseBegin BY <2>1 DEF CloseBegin
    <2>2. CASE Drain
      <3>1. drained' \in 0..N BY <2>2 DEF Drain
      <3>2. nils' \in Nat /\ idle' \subseteq Worker BY <2>2 DEF Drain
      <3>3. proc' \in [Worker -> {"none", "ready", "working", "answered", "hung", "dead"}]
        BY <2>2 DEF Drain
      <3> QED BY <3>1, <3>2, <3>3, <2>2 DEF Drain
    <2>3. CASE CloseEnd BY <2>3 DEF CloseEnd
    <2> QED BY <1>11, <2>1, <2>2, <2>3 DEF Close
  <1>12. CASE UNCHANGED poolVars BY <1>12 DEF poolVars
  <1> QED BY <1>1, <1>2, <1>3, <1>4, <1>5, <1>6, <1>7, <1>8, <1>9, <1>10, <1>11, <1>12
        DEF PoolNext, Extract, Ending, Crashed, Timeout, Cancelled

-----------------------------------------------------------------------------
(* Slots.                                                                  *)

\* A slot goes back as a nil or as an idle worker, never as one that is there.
LEMMA PutBackAdds ==
    ASSUME PoolTypeOK, OneUser, NEW c \in Call, PutBack(c)
    PROVE  /\ nils' + Cardinality(idle') = nils + Cardinality(idle) + 1
           /\ idle' \subseteq idle \cup {holds[c]}
  <1>1. IsFiniteSet(idle) /\ Cardinality(idle) \in Nat
    BY PoolAssumption, FS_Subset, FS_CardinalityType DEF PoolTypeOK
  <1>2. holds[c] \notin idle BY DEF OneUser
  <1>3. CASE holds[c] = NoWorker BY <1>1, <1>3 DEF PutBack, PoolTypeOK
  <1>4. CASE holds[c] # NoWorker
    <2>1. idle' = idle \cup {holds[c]} /\ nils' = nils BY <1>4 DEF PutBack
    <2>2. Cardinality(idle') = Cardinality(idle) + 1 BY <2>1, <1>1, <1>2, FS_AddElement
    <2> QED BY <1>1, <2>1, <2>2 DEF PoolTypeOK
  <1> QED BY <1>3, <1>4

\* Every action moves a slot from one place to another, or none.
LEMMA SlotsStep == PoolTypeOK /\ OneUser /\ SlotsConserved /\ [PoolNext]_poolVars => SlotsConserved'
  <1> SUFFICES ASSUME PoolTypeOK, OneUser, SlotsConserved, [PoolNext]_poolVars PROVE SlotsConserved'
    OBVIOUS
  <1> USE DEF SlotsConserved, channel, process, calls, close
  <1>n. /\ IsFiniteSet(idle) /\ Cardinality(idle) \in Nat
        /\ Cardinality(Holding) \in Nat /\ nils \in Nat /\ drained \in Nat /\ N \in Nat
    BY PoolAssumption, HoldingFinite, FS_Subset, FS_CardinalityType DEF PoolTypeOK
  <1>1. ASSUME NEW c \in Call, Start(c) PROVE SlotsConserved'
    <2>1. Holding' = Holding BY <1>1, HoldingStays DEF Start, InCall
    <2> QED BY <1>1, <2>1 DEF Start
  <1>2. ASSUME NEW c \in Call, Take(c) PROVE SlotsConserved'
    <2>1. Cardinality(Holding') = Cardinality(Holding) + 1
      BY <1>2, HoldingEnters DEF Take, InCall
    <2>2. ASSUME NEW w \in idle, idle' = idle \ {w} PROVE Cardinality(idle') = Cardinality(idle) - 1
      BY <2>2, <1>n, FS_RemoveElement
    <2>3. nils' + Cardinality(idle') = nils + Cardinality(idle) - 1
      BY <1>2, <1>n, <2>2 DEF Take
    <2>4. drained' = drained BY <1>2 DEF Take
    <2>5. nils' \in Nat /\ Cardinality(idle') \in Int BY <1>2, <1>n, <2>2 DEF Take
    <2> QED BY <1>n, <2>1, <2>3, <2>4, <2>5
  <1>3. ASSUME NEW c \in Call, GiveUp(c) PROVE SlotsConserved'
    <2>1. Holding' = Holding BY <1>3, HoldingStays DEF GiveUp, InCall
    <2> QED BY <1>3, <2>1 DEF GiveUp
  <1>4. ASSUME NEW c \in Call, at[c] \in InCall, PutBack(c), LetGo(c), drained' = drained
        PROVE SlotsConserved'
    <2>1. Cardinality(Holding') = Cardinality(Holding) - 1 BY <1>4, HoldingLeaves DEF LetGo
    <2>2. nils' + Cardinality(idle') = nils + Cardinality(idle) + 1 BY <1>4, PutBackAdds
    <2> QED BY <1>n, <1>4, <2>1, <2>2
  <1>5. ASSUME NEW c \in Call, CheckClosed(c) PROVE SlotsConserved'
    <2>1. CASE closed BY <1>5, <2>1, <1>4 DEF CheckClosed, InCall
    <2>2. CASE ~closed
      <3>1. Holding' = Holding BY <1>5, <2>2, HoldingStays DEF CheckClosed, InCall
      <3> QED BY <1>5, <2>2, <3>1 DEF CheckClosed
    <2> QED BY <2>1, <2>2
  <1>6. ASSUME NEW c \in Call, Spawn(c) PROVE SlotsConserved'
    <2>1. Holding' = Holding BY <1>6, HoldingStays DEF Spawn, InCall
    <2> QED BY <1>6, <2>1 DEF Spawn
  <1>7. ASSUME NEW c \in Call, SpawnFails(c) PROVE SlotsConserved'
    BY <1>7, <1>4 DEF SpawnFails, InCall
  <1>8. ASSUME NEW c \in Call, Send(c) PROVE SlotsConserved'
    <2>1. Holding' = Holding BY <1>8, HoldingStays DEF Send, InCall
    <2> QED BY <1>8, <2>1 DEF Send
  <1>9. ASSUME NEW c \in Call, Answer(c) PROVE SlotsConserved'
    BY <1>9, <1>4 DEF Answer, InCall
  <1>10. ASSUME NEW c \in Call, at[c] = "waiting", Replace(c) PROVE SlotsConserved'
    <2>1. Cardinality(Holding') = Cardinality(Holding) - 1
      BY <1>10, HoldingLeaves DEF Replace, LetGo, InCall
    <2> QED BY <1>n, <1>10, <2>1 DEF Replace
  <1>11. ASSUME NEW w \in Worker, RunWorker(w) PROVE SlotsConserved'
    BY <1>11 DEF RunWorker, Reply, Crash, Hang, Die, Become, Holding
  <1>12. ASSUME Close PROVE SlotsConserved'
    <2>1. CASE CloseBegin BY <2>1 DEF CloseBegin, Holding
    <2>2. CASE Drain
      <3>1. Holding' = Holding BY <2>2 DEF Drain, Holding
      <3>2. ASSUME NEW w \in idle, idle' = idle \ {w} PROVE Cardinality(idle') = Cardinality(idle) - 1
        BY <3>2, <1>n, FS_RemoveElement
      <3>3. nils' + Cardinality(idle') = nils + Cardinality(idle) - 1
        BY <2>2, <1>n, <3>2 DEF Drain
      <3>4. nils' \in Nat /\ Cardinality(idle') \in Int BY <2>2, <1>n, <3>2 DEF Drain
      <3> QED BY <2>2, <1>n, <3>1, <3>3, <3>4 DEF Drain
    <2>3. CASE CloseEnd BY <2>3 DEF CloseEnd, Holding
    <2> QED BY <1>12, <2>1, <2>2, <2>3 DEF Close
  <1>13. CASE UNCHANGED poolVars BY <1>13 DEF poolVars, Holding
  <1> QED BY <1>1, <1>2, <1>3, <1>5, <1>6, <1>7, <1>8, <1>9, <1>10, <1>11, <1>12, <1>13
        DEF PoolNext, Extract, Ending, Crashed, Timeout, Cancelled

-----------------------------------------------------------------------------
(* Workers.                                                                *)

UsersOK == OneUser /\ JobsAreHeld

\* Letting a worker go, into the channel or killed, leaves every other worker
\* with its user.
LEMMA LettingGo ==
    ASSUME PoolTypeOK, UsersOK, NEW c \in Call, LetGo(c), turn' = turn,
           \/ PutBack(c) /\ proc' = proc /\ job' = job /\ at[c] # "waiting"
           \/ PutBack(c) /\ holds[c] \in Worker /\ proc' = [proc EXCEPT ![holds[c]] = "ready"]
                         /\ job' = [job EXCEPT ![holds[c]] = NoJob]
           \/ holds[c] \in Worker /\ idle' = idle /\ proc' = [proc EXCEPT ![holds[c]] = "none"]
                         /\ job' = [job EXCEPT ![holds[c]] = NoJob]
    PROVE  UsersOK'
  <1> USE DEF PoolTypeOK, UsersOK, OneUser, LetGo, Goto
  <1>1. \A d \in Call : holds'[d] = IF d = c THEN NoWorker ELSE holds[d] OBVIOUS
  <1>2. idle' \subseteq idle \cup {holds[c]} BY DEF PutBack
  <1>3. \A d \in Call : holds'[d] \notin idle'
    BY <1>1, <1>2, PoolAssumption DEF PutBack
  <1>4. \A d, e \in Call : d # e /\ holds'[d] = holds'[e] => holds'[d] = NoWorker BY <1>1
  <1>5. ASSUME NEW w \in Worker, w \in Alive' PROVE w \in idle' \cup Held'
    <2>1. CASE w = holds[c] BY <1>5, <2>1, PoolAssumption DEF Alive, PutBack, Held
    <2>2. CASE w # holds[c]
      <3>1. w \in Alive BY <1>5, <2>2 DEF Alive
      <3>2. CASE w \in idle BY <3>2 DEF PutBack
      <3>3. CASE w \in Held BY <3>3, <2>2, <1>1 DEF Held
      <3> QED BY <3>1, <3>2, <3>3
    <2> QED BY <2>1, <2>2
  <1>6. ASSUME NEW w \in Worker, proc'[w] \in {"working", "answered", "hung"}
        PROVE  \E d \in Call : holds'[d] = w /\ at'[d] = "waiting" /\ job'[w] = <<d, turn'[d]>>
    <2>1. proc[w] \in {"working", "answered", "hung"} BY <1>6
    <2>2. PICK d \in Call : holds[d] = w /\ at[d] = "waiting" /\ job[w] = <<d, turn[d]>>
      BY <2>1 DEF JobsAreHeld, Request
    <2>3. d # c BY <2>2, <1>6
    <2>4. w # holds[c] BY <2>2, <2>3, PoolAssumption
    <2>5. job'[w] = job[w] /\ holds'[d] = holds[d] /\ at'[d] = at[d] BY <2>3, <2>4
    <2> QED BY <2>2, <2>5
  <1> QED BY <1>3, <1>4, <1>5, <1>6 DEF JobsAreHeld, Request, Alive

\* No action gives a worker a second user or takes its last one away.
LEMMA UsersStep == PoolTypeOK /\ UsersOK /\ [PoolNext]_poolVars => UsersOK'
  <1> SUFFICES ASSUME PoolTypeOK, UsersOK, [PoolNext]_poolVars PROVE UsersOK' OBVIOUS
  <1> USE PoolAssumption DEF PoolTypeOK, UsersOK, OneUser, JobsAreHeld, Held, Alive, Request,
          Goto, channel, process, calls, close
  <1>1. ASSUME NEW c \in Call, Start(c) PROVE UsersOK' BY <1>1 DEF Start
  <1>2. ASSUME NEW c \in Call, Take(c) PROVE UsersOK'
    <2>1. CASE idle' = idle /\ holds' = holds BY <1>2, <2>1 DEF Take
    <2>2. ASSUME NEW w \in idle, idle' = idle \ {w}, holds' = [holds EXCEPT ![c] = w]
          PROVE UsersOK'
      <3>1. OneUser' BY <1>2, <2>2 DEF Take
      <3>2. JobsAreHeld' BY <1>2, <2>2 DEF Take
      <3> QED BY <3>1, <3>2
    <2> QED BY <1>2, <2>1, <2>2 DEF Take
  <1>3. ASSUME NEW c \in Call, GiveUp(c) PROVE UsersOK' BY <1>3 DEF GiveUp
  <1>4. ASSUME NEW c \in Call, CheckClosed(c) PROVE UsersOK'
    <2>1. CASE closed BY <1>4, <2>1, LettingGo DEF CheckClosed
    <2>2. CASE ~closed BY <1>4, <2>2 DEF CheckClosed
    <2> QED BY <2>1, <2>2
  <1>5. ASSUME NEW c \in Call, Spawn(c) PROVE UsersOK'
    <2>1. PICK w \in Worker \ (idle \cup Held) :
            /\ holds' = [holds EXCEPT ![c] = w] /\ proc' = [proc EXCEPT ![w] = "ready"]
      BY <1>5 DEF Spawn
    <2>2. OneUser' BY <1>5, <2>1 DEF Spawn
    <2>3. JobsAreHeld' BY <1>5, <2>1 DEF Spawn
    <2> QED BY <2>2, <2>3
  <1>6. ASSUME NEW c \in Call, SpawnFails(c) PROVE UsersOK'
    BY <1>6, LettingGo DEF SpawnFails
  <1>7. ASSUME NEW c \in Call, Send(c) PROVE UsersOK'
    <2>1. holds[c] \in Worker BY <1>7 DEF Send
    <2>2. OneUser' BY <1>7, <2>1 DEF Send
    <2>3. JobsAreHeld' BY <1>7, <2>1 DEF Send
    <2> QED BY <2>2, <2>3
  <1>8. ASSUME NEW c \in Call, Answer(c) PROVE UsersOK'
    <2>1. holds[c] \in Worker BY <1>8 DEF Answer
    <2> QED BY <1>8, <2>1, LettingGo DEF Answer
  <1>9. ASSUME NEW c \in Call, at[c] = "waiting", Replace(c) PROVE UsersOK'
    <2>1. holds[c] \in Worker BY <1>9
    <2> QED BY <1>9, <2>1, LettingGo DEF Replace
  <1>10. ASSUME NEW w \in Worker, RunWorker(w) PROVE UsersOK'
    BY <1>10 DEF RunWorker, Reply, Crash, Hang, Die, Become
  <1>11. ASSUME Close PROVE UsersOK'
    <2>1. CASE CloseBegin BY <2>1 DEF CloseBegin
    <2>2. CASE Drain BY <2>2 DEF Drain
    <2>3. CASE CloseEnd BY <2>3 DEF CloseEnd
    <2> QED BY <1>11, <2>1, <2>2, <2>3 DEF Close
  <1>12. CASE UNCHANGED poolVars BY <1>12 DEF poolVars
  <1> QED BY <1>1, <1>2, <1>3, <1>4, <1>5, <1>6, <1>7, <1>8, <1>9, <1>10, <1>11, <1>12
        DEF PoolNext, Extract, Ending, Crashed, Timeout, Cancelled

-----------------------------------------------------------------------------
(* The pool's invariants.                                                  *)

\* The inductive invariant holds initially.
LEMMA InitOK == PoolInit => PoolInv
  <1> SUFFICES ASSUME PoolInit PROVE PoolInv OBVIOUS
  <1>1. PoolTypeOK
    <2>1. /\ job \in [Worker -> (Call \cup {NoWorker}) \X {0, 1}]
          /\ proc \in [Worker -> {"none", "ready", "working", "answered", "hung", "dead"}]
      BY DEF PoolInit, NoJob
    <2>2. /\ at \in [Call -> {"idle", "taking"} \cup InCall]
          /\ holds \in [Call -> Worker \cup {NoWorker}] /\ turn \in [Call -> {0, 1}]
      BY DEF PoolInit
    <2>3. idle \subseteq Worker /\ nils \in Nat /\ drained \in 0..N
      BY PoolAssumption DEF PoolInit
    <2>4. closed \in BOOLEAN /\ returned \in BOOLEAN BY DEF PoolInit
    <2>5. \A c \in Call : at[c] = "idle" /\ holds[c] = NoWorker BY DEF PoolInit
    <2> QED BY <2>1, <2>2, <2>3, <2>4, <2>5 DEF PoolTypeOK
  <1>2. Holding = {} BY DEF PoolInit, Holding, InCall
  <1>3. SlotsConserved BY <1>2, PoolAssumption, FS_EmptySet DEF PoolInit, SlotsConserved
  <1>4. OneUser /\ JobsAreHeld BY DEF PoolInit, OneUser, JobsAreHeld, Alive
  <1> QED BY <1>1, <1>3, <1>4 DEF PoolInv, PoolInit

\* Close returns when it has every slot, and nothing changes that later.
LEMMA CloseStep ==
    PoolTypeOK /\ PoolTypeOK' /\ (returned => drained = N) /\ [PoolNext]_poolVars
        => (returned => drained = N)'
  BY DEF PoolTypeOK, PoolNext, Extract, Start, Take, GiveUp, Ending, CheckClosed, Spawn, SpawnFails,
         Send, Answer, Crashed, Timeout, Cancelled, Replace, RunWorker, Reply, Crash, Hang,
         Die, Become, Close, CloseBegin, Drain, CloseEnd, poolVars, close

\* The inductive invariant implies the checked ones.
LEMMA Implied == PoolInv => PoolTypeOK /\ SlotsConserved /\ OneUser /\ OwnAnswer /\ ClosedIsEmpty
  <1> SUFFICES ASSUME PoolInv PROVE OwnAnswer /\ ClosedIsEmpty BY DEF PoolInv
  <1> USE DEF PoolInv
  <1>1. OwnAnswer
    <2> SUFFICES ASSUME NEW c \in Call, at[c] = "waiting", proc[holds[c]] = "answered"
                 PROVE  job[holds[c]] = Request(c)
      BY DEF OwnAnswer
    <2>1. holds[c] \in Worker BY DEF PoolTypeOK
    <2>2. PICK d \in Call : holds[d] = holds[c] /\ job[holds[c]] = Request(d)
      BY <2>1 DEF JobsAreHeld
    <2>3. d = c BY <2>1, <2>2, PoolAssumption DEF OneUser
    <2> QED BY <2>2, <2>3
  <1>2. ASSUME returned PROVE Alive = {} /\ Holding = {}
    <2>1. IsFiniteSet(idle) BY PoolAssumption, FS_Subset DEF PoolTypeOK
    <2>2. Cardinality(idle) = 0 /\ Cardinality(Holding) = 0
      BY <1>2, <2>1, HoldingFinite, FS_CardinalityType, PoolAssumption DEF SlotsConserved, PoolTypeOK
    <2>3. idle = {} /\ Holding = {} BY <2>1, <2>2, HoldingFinite, FS_EmptySet
    <2>4. Held = {} BY <2>3 DEF Held, Holding, PoolTypeOK, InCall
    <2> QED BY <2>3, <2>4 DEF OneUser
  <1> QED BY <1>1, <1>2 DEF ClosedIsEmpty

LEMMA PoolInvHolds == PoolSpec => []PoolInv
  <1>1. PoolInv /\ [PoolNext]_poolVars => PoolInv'
    BY PoolTypeStep, SlotsStep, UsersStep, CloseStep DEF PoolInv, UsersOK
  <1> QED BY InitOK, <1>1, PTL DEF PoolSpec

\* For any pool and any number of calls: no slot is lost or returned twice, and
\* no worker has two users or none.
THEOREM PoolCorrect == PoolSpec => [](PoolTypeOK /\ SlotsConserved /\ OneUser)
  <1> QED BY PoolInvHolds, Implied, PTL

\* Every answer that a call reads is the answer to its own request.
THEOREM AnswersCorrect == PoolSpec => []OwnAnswer
  <1> QED BY PoolInvHolds, Implied, PTL

\* A pool whose Close has returned runs nothing, whatever was under way.
THEOREM CloseCorrect == PoolSpec => []ClosedIsEmpty
  <1> QED BY PoolInvHolds, Implied, PTL
=============================================================================
