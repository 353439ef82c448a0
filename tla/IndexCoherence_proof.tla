------------------------ MODULE IndexCoherence_proof ------------------------
(***************************************************************************)
(* Type correctness of IndexCoherence; that a run in progress leaves no      *)
(* label unless it took the project for a new one; and under the two        *)
(* assumptions on the environment (no edit during a run, and no content     *)
(* comes back) the label of the graph, and that the evidence requests       *)
(* implement EvidenceContract, step by step.                                *)
(***************************************************************************)
EXTENDS IndexCoherence, TLAPS

\* The checkout's history: what a path holds it has held, and mtimes come from
\* the clock, so 0 is the mtime of no file.
HistoryOK ==
    \A f \in File : disk[f].c \in used[f] /\ disk[f].t >= 1 /\ disk[f].t <= edits

\* A file_hashes row names a content the file had; while the file's mtime has
\* not moved, the one it has.
HashesOK(h) ==
    \A f \in File :
        h[f] # NoHash =>
            /\ h[f].sha \in used[f]
            /\ h[f].t <= edits
            /\ h[f].t = disk[f].t => h[f].sha = disk[f].c

\* The rows of a hashed file are those of the hashed content, or the file was
\* skipped, or a full run dropped the rows of a file that is gone and kept its
\* hash; rows without a hash are left only by force=true, which drops them all.
RowsOK ==
    \A f \in File :
        /\ hash[f] # NoHash =>
              \/ graph[f] \in {hash[f].sha, Skipped}
              \/ graph[f] = Absent /\ hash[f].sha # disk[f].c
        /\ hash[f] = NoHash /\ graph[f] # Absent => \A g \in File : hash[g] = NoHash

\* Only an existing project has an identity, and a run that committed made one.
ProjectOK ==
    /\ ~row => status = "missing"
    /\ pc \in {"sidecar", "committed", "marked"} => row

\* A run's start identity and its file list describe the checkout it reads.
RunOK ==
    /\ pc # "idle" => start \in {Capture, Failed}
    /\ pc \in {"classify", "scan", "hash", "commit"} => files = Present
    /\ todo \subseteq files /\ (pc \notin {"scan", "hash"} => todo = {})
    /\ tostat \subseteq files \ todo /\ (pc # "hash" => tostat = {})

\* The transaction's rows, as far as the passes have come.
ScanOK ==
    /\ pc = "scan" => \A f \in File \ todo : work[f] \in {disk[f].c, Skipped}
    /\ pc \in {"hash", "commit"} => \A f \in File : work[f] \in {disk[f].c, Skipped}
    /\ pc \in {"scan", "hash", "commit"} =>
          HashesOK(whash) /\ \A f \in File \ files : work[f] = Absent

\* The transaction's hashes, as far as updateFileHashes has come.
HashPassOK ==
    /\ pc = "hash" => \A f \in files \ todo : whash[f] # NoHash /\ whash[f].sha = disk[f].c
    /\ pc = "commit" => \A f \in files : whash[f] # NoHash /\ whash[f].sha = disk[f].c

\* A run that committed left the rows of the checkout it read.
CommittedOK ==
    pc \in {"sidecar", "committed", "marked"} =>
        \A f \in File : graph[f] \in {disk[f].c, Skipped}

\* updateFileHashes stats only files it has just hashed.
StatOK ==
    /\ pc # "hash" => tostat = {}
    /\ \A f \in tostat : whash[f] \in Hash

\* A label names contents that the checkout had.
IdentityOK ==
    /\ ident # Failed => \A f \in File : ident[f] \in used[f]
    /\ status = "captured" => ident # Failed

IInv ==
    /\ TypeOK /\ StatOK /\ HistoryOK /\ HashesOK(hash) /\ RowsOK /\ ProjectOK /\ RunOK
    /\ ScanOK /\ HashPassOK /\ CommittedOK
    /\ FailClosed /\ IdentityOK /\ LabelledIsScanned

-----------------------------------------------------------------------------
(* Type correctness.                                                       *)

USE IndexAssumption

LEMMA TypeInit == Init => TypeOK /\ StatOK
<1> SUFFICES ASSUME Init PROVE TypeOK /\ StatOK
  OBVIOUS
<1>1. PICK d \in Identity : disk = [f \in File |-> [c |-> d[f], t |-> 1]]
  BY DEF Init
<1>2. disk \in [File -> [c : State, t : Nat]]
  BY <1>1 DEF Identity
<1>3. used \in [File -> SUBSET State]
  BY <1>1, <1>2 DEF Init, Identity
<1>4. seen \in [Reader -> [File -> State \cup {Skipped, Failed}]]
  BY DEF Init, Unread
<1> QED
  BY <1>2, <1>3, <1>4 DEF Init, RunIdle, TypeOK, StatOK, State

LEMMA TypeNext == TypeOK /\ StatOK /\ [Next]_vars => TypeOK' /\ StatOK'
<1> SUFFICES ASSUME TypeOK, StatOK, [Next]_vars PROVE TypeOK' /\ StatOK'
  OBVIOUS
<1> USE DEF TypeOK, StatOK, disk_vars, label_vars, db_vars, run_vars, read_vars
<1>1. ASSUME NEW f \in File, NEW c \in State, Edit(f, c) PROVE TypeOK' /\ StatOK'
  BY <1>1 DEF Edit
<1>2. ASSUME NEW force \in BOOLEAN, BeginHandler(force) PROVE TypeOK' /\ StatOK'
  BY <1>2 DEF BeginHandler, BeginRun, Invalidate, SetPending, Capture, Identity, State
<1>3. ASSUME BeginSync PROVE TypeOK' /\ StatOK'
  BY <1>3 DEF BeginSync, BeginRun, Invalidate, SetPending, Capture, Identity, State
<1>4. ASSUME BeginAuto PROVE TypeOK' /\ StatOK'
  BY <1>4 DEF BeginAuto, BeginRun, Invalidate, SetPending, Capture, Identity, State
<1>5. ASSUME SkipAuto PROVE TypeOK' /\ StatOK'
  BY <1>5 DEF SkipAuto
<1>6. ASSUME Discover PROVE TypeOK' /\ StatOK'
  BY <1>6 DEF Discover, Present
<1>7. ASSUME ClassifyFull PROVE TypeOK' /\ StatOK'
  BY <1>7 DEF ClassifyFull, State
<1>8. ASSUME ClassifyIncremental PROVE TypeOK' /\ StatOK'
  BY <1>8 DEF ClassifyIncremental, Changed, Unchanged, Deleted, Present, State
<1>9. ASSUME ClassifyNoop PROVE TypeOK' /\ StatOK'
  BY <1>9 DEF ClassifyNoop
<1>10. ASSUME NEW f \in File, Scan(f) PROVE TypeOK' /\ StatOK'
  BY <1>10 DEF Scan
<1>11. ASSUME NEW f \in File, HashFile(f) PROVE TypeOK' /\ StatOK'
  <2>1. whash' \in [File -> Hash \cup {NoHash}]
    <3>1. CASE f \in Present
      <4>1. [sha |-> disk[f].c, t |-> 0] \in Hash
        BY <3>1 DEF Present, State, Hash
      <4> QED
        BY <1>11, <3>1, <4>1 DEF HashFile
    <3>2. CASE f \notin Present
      BY <1>11, <3>2 DEF HashFile
    <3> QED
      BY <3>1, <3>2
  <2>2. \A g \in tostat' : whash'[g] \in Hash
    BY <1>11, <2>1 DEF HashFile, Present, State, Hash
  <2> QED
    BY <1>11, <2>1, <2>2 DEF HashFile
<1>12. ASSUME NEW f \in File, StatFile(f) PROVE TypeOK' /\ StatOK'
  <2>1. [whash[f] EXCEPT !.t = disk[f].t] \in Hash
    BY <1>12 DEF StatFile, Hash
  <2>2. whash' \in [File -> Hash \cup {NoHash}]
    BY <1>12, <2>1 DEF StatFile
  <2>3. \A g \in tostat' : whash'[g] \in Hash
    BY <1>12, <2>1 DEF StatFile
  <2> QED
    BY <1>12, <2>2, <2>3 DEF StatFile
<1>13. ASSUME ScanDone PROVE TypeOK' /\ StatOK'
  BY <1>13 DEF ScanDone
<1>14. ASSUME HashDone PROVE TypeOK' /\ StatOK'
  BY <1>14 DEF HashDone
<1>15. ASSUME Commit PROVE TypeOK' /\ StatOK'
  BY <1>15 DEF Commit, State
<1>16. ASSUME WriteSkips PROVE TypeOK' /\ StatOK'
  BY <1>16 DEF WriteSkips
<1>17. ASSUME PrecisionFails PROVE TypeOK' /\ StatOK'
  BY <1>17 DEF PrecisionFails, EndRun, State
<1>18. ASSUME RunFails PROVE TypeOK' /\ StatOK'
  BY <1>18 DEF RunFails, PersistError, EndRun, State
<1>19. ASSUME MarkPending PROVE TypeOK' /\ StatOK'
  BY <1>19 DEF MarkPending, SetPending
<1>20. ASSUME MarkPendingFails PROVE TypeOK' /\ StatOK'
  BY <1>20 DEF MarkPendingFails, PersistError, EndRun, State
<1>21. ASSUME Finish PROVE TypeOK' /\ StatOK'
  BY <1>21 DEF Finish, PersistError, EndRun, Capture, Identity, State
<1>22. ASSUME Crash PROVE TypeOK' /\ StatOK'
  BY <1>22 DEF Crash, EndRun, State, Unread
<1>23. ASSUME NEW r \in Reader, ReadRecord(r) PROVE TypeOK' /\ StatOK'
  BY <1>23 DEF ReadRecord
<1>24. ASSUME NEW r \in Reader, CompareLive(r) PROVE TypeOK' /\ StatOK'
  BY <1>24 DEF CompareLive
<1>25. ASSUME NEW r \in Reader, NEW f \in File, ReadGraph(r, f) PROVE TypeOK' /\ StatOK'
  BY <1>25 DEF ReadGraph
<1>26. ASSUME NEW r \in Reader, RereadRecord(r) PROVE TypeOK' /\ StatOK'
  BY <1>26 DEF RereadRecord
<1>27. ASSUME NEW r \in Reader, RecompareLive(r) PROVE TypeOK' /\ StatOK'
  BY <1>27 DEF RecompareLive
<1>28. ASSUME NEW r \in Reader, Done(r) PROVE TypeOK' /\ StatOK'
  BY <1>28 DEF Done, Unread
<1>29. ASSUME UNCHANGED vars PROVE TypeOK' /\ StatOK'
  BY <1>29 DEF vars
<1> QED
  BY <1>1, <1>2, <1>3, <1>4, <1>5, <1>6, <1>7, <1>8, <1>9, <1>10, <1>11, <1>12,
     <1>13, <1>14, <1>15, <1>16, <1>17, <1>18, <1>19, <1>20, <1>21, <1>22, <1>23,
     <1>24, <1>25, <1>26, <1>27, <1>28, <1>29 DEF Next, Begin, Passes, End, Read

\* Every variable keeps its type, for any checkout, any number of edits and of
\* requests, and whatever the environment does.
THEOREM TypeCorrect == Spec => []TypeOK
  BY TypeInit, TypeNext, PTL DEF Spec

-----------------------------------------------------------------------------
(* The label.                                                              *)

LEMMA LabelInit == Init => IInv
  <1> SUFFICES ASSUME Init PROVE IInv
    OBVIOUS
  <1>1. TypeOK /\ StatOK
    BY TypeInit
  <1>2. PICK d \in Identity : disk = [f \in File |-> [c |-> d[f], t |-> 1]]
    BY DEF Init
  <1> QED
    BY <1>1, <1>2 DEF Init, RunIdle, IInv, HistoryOK, HashesOK, RowsOK, ProjectOK, RunOK,
       ScanOK, HashPassOK, CommittedOK, FailClosed, IdentityOK, LabelledIsScanned

\* What IInv says beyond the types.
Label ==
    /\ HistoryOK /\ HashesOK(hash) /\ RowsOK /\ ProjectOK /\ RunOK
    /\ ScanOK /\ HashPassOK /\ CommittedOK
    /\ FailClosed /\ IdentityOK /\ LabelledIsScanned

LEMMA LabelNext ==
    ASSUME ~LiveEdits, ~Reverts, IInv, [Next]_vars PROVE IInv'
<1>1. TypeOK' /\ StatOK'
  BY TypeNext DEF IInv
<1> SUFFICES Label'
  BY <1>1 DEF IInv, Label
<1> USE DEF IInv, TypeOK, StatOK, Label, HistoryOK, HashesOK, RowsOK, ProjectOK, RunOK,
        ScanOK, HashPassOK, CommittedOK, FailClosed, IdentityOK, LabelledIsScanned,
        Capture, Present, disk_vars, label_vars, db_vars, run_vars, read_vars
<1>2. ASSUME NEW f \in File, NEW c \in State, Edit(f, c) PROVE Label'
  <2>1. pc = "idle" /\ pc' = "idle" /\ c \notin used[f]
    BY <1>2 DEF Edit
  <2>2. disk' = [disk EXCEPT ![f] = [c |-> c, t |-> edits + 1]] /\ edits' = edits + 1
    BY <1>2 DEF Edit
  <2>3. used' = [used EXCEPT ![f] = @ \cup {c}]
    BY <1>2 DEF Edit
  <2>4. HistoryOK'
    BY <2>2, <2>3
  <2>5. HashesOK(hash)'
    <3>1. SUFFICES ASSUME NEW g \in File, hash[g] # NoHash
                   PROVE  /\ hash[g].sha \in used'[g]
                          /\ hash[g].t <= edits'
                          /\ hash[g].t = disk'[g].t => hash[g].sha = disk'[g].c
      BY <1>2 DEF Edit
    <3>2. hash[g] \in Hash
      BY <3>1
    <3> QED
      BY <2>2, <2>3, <3>1, <3>2 DEF Hash
  <2>6. RowsOK'
    BY <1>2, <2>1, <2>2 DEF Edit
  <2>7. ProjectOK' /\ RunOK' /\ ScanOK' /\ HashPassOK' /\ CommittedOK'
    BY <1>2, <2>1 DEF Edit
  <2>8. FailClosed' /\ IdentityOK'
    BY <1>2, <2>1, <2>3 DEF Edit
  <2>9. LabelledIsScanned'
    <3>1. UNCHANGED <<status, ident, graph, overlooked>>
      BY <1>2 DEF Edit
    <3>2. ASSUME status = "captured", Capture # ident PROVE (Capture # ident)'
      <4>1. ident \in Identity /\ \A g \in File : ident[g] \in used[g]
        BY <3>2
      <4>2. PICK g \in File : disk[g].c # ident[g]
        BY <3>2, <4>1 DEF Identity
      <4>3. disk'[g].c # ident[g]
        BY <2>1, <2>2, <4>1, <4>2
      <4> QED
        BY <3>1, <4>3
    <3> QED
      BY <3>1, <3>2
  <2> QED
    BY <2>4, <2>5, <2>6, <2>7, <2>8, <2>9
<1>3. ASSUME NEW force \in BOOLEAN, BeginHandler(force) PROVE Label'
  <2>1. PICK existed \in {row, FALSE} : Invalidate(existed)
    BY <1>3 DEF BeginHandler
  <2>2. /\ blind' = (row /\ ~existed) /\ pc' = "begun" /\ start' \in {Capture, Failed}
        /\ UNCHANGED <<disk, edits, used, row, graph, files, todo, tostat, work, whash>>
        /\ hash' \in {hash, [f \in File |-> NoHash]}
    BY <1>3, <2>1 DEF BeginHandler, BeginRun, Invalidate
  <2>3. HistoryOK' /\ HashesOK(hash)' /\ RowsOK' /\ RunOK' /\ ScanOK' /\ HashPassOK' /\ CommittedOK'
    <3>1. pc = "idle" /\ todo = {} /\ tostat = {}
      BY <1>3 DEF BeginHandler, BeginRun
    <3>2. HistoryOK' /\ RunOK' /\ ScanOK' /\ HashPassOK' /\ CommittedOK'
      BY <2>2, <3>1
    <3> QED
      BY <2>2, <3>2
  <2>4. existed = row \/ existed = FALSE
    BY <2>1
  <2>5. CASE existed
    <3>1. row /\ SetPending
      BY <2>1, <2>4, <2>5 DEF Invalidate
    <3>2. FailClosed' /\ ProjectOK' /\ IdentityOK' /\ LabelledIsScanned'
      BY <2>2, <3>1 DEF SetPending
    <3> QED
      BY <2>3, <3>2
  <2>6. CASE ~existed
    <3>1. UNCHANGED label_vars
      BY <2>1, <2>6 DEF Invalidate
    <3>2. IdentityOK' /\ LabelledIsScanned' /\ ProjectOK'
      BY <2>2, <3>1
    <3>3. FailClosed'
      BY <2>2, <2>6, <3>1
    <3> QED
      BY <2>3, <3>2, <3>3
  <2> QED
    BY <2>5, <2>6
<1>4. ASSUME BeginSync PROVE Label'
  BY <1>4 DEF BeginSync, BeginRun, Invalidate, SetPending
<1>5. ASSUME BeginAuto PROVE Label'
  BY <1>5 DEF BeginAuto, BeginRun, Invalidate, SetPending
<1>6. ASSUME SkipAuto PROVE Label'
  BY <1>6 DEF SkipAuto
<1>7. ASSUME Discover PROVE Label'
  BY <1>7 DEF Discover
<1>8. ASSUME ClassifyFull PROVE Label'
  BY <1>8 DEF ClassifyFull
<1>9. ASSUME ClassifyIncremental PROVE Label'
  BY <1>9 DEF ClassifyIncremental, Changed, Unchanged, Deleted
<1>10. ASSUME ClassifyNoop PROVE Label'
  BY <1>10 DEF ClassifyNoop, Changed, Unchanged, Deleted
<1>11. ASSUME NEW f \in File, Scan(f) PROVE Label'
  BY <1>11 DEF Scan
<1>12. ASSUME NEW f \in File, HashFile(f) PROVE Label'
  <2>1. f \in Present
    BY <1>12 DEF HashFile
  <2>2. whash' = [whash EXCEPT ![f] = [sha |-> disk[f].c, t |-> 0]]
    BY <1>12, <2>1 DEF HashFile
  <2>3. HashesOK(whash)'
    BY <1>12, <2>1, <2>2 DEF HashFile
  <2>4. HashPassOK'
    <3>1. SUFFICES ASSUME NEW g \in files \ todo'
                   PROVE  whash'[g] # NoHash /\ whash'[g].sha = disk[g].c
      BY <1>12 DEF HashFile
    <3>2. [sha |-> disk[f].c, t |-> 0] \in Hash
      BY <2>1 DEF Hash, State
    <3> QED
      BY <1>12, <2>2, <3>1, <3>2 DEF HashFile, Hash
  <2>5. RunOK'
    BY <1>12, <2>1 DEF HashFile
  <2> QED
    BY <1>12, <2>3, <2>4, <2>5 DEF HashFile
<1>13. ASSUME NEW f \in File, StatFile(f) PROVE Label'
  <2>1. f \in Present /\ whash[f] \in Hash /\ f \in files \ todo
    BY <1>13 DEF StatFile
  <2>2. whash' = [whash EXCEPT ![f] = [sha |-> whash[f].sha, t |-> disk[f].t]]
    <3>1. whash' = [whash EXCEPT ![f] = [whash[f] EXCEPT !.t = disk[f].t]]
      BY <1>13, <2>1 DEF StatFile
    <3>2. [whash[f] EXCEPT !.t = disk[f].t] = [sha |-> whash[f].sha, t |-> disk[f].t]
      BY <2>1 DEF Hash
    <3> QED
      BY <3>1, <3>2
  <2>3. HashesOK(whash)'
    BY <1>13, <2>1, <2>2 DEF StatFile, Hash
  <2>4. HashPassOK'
    BY <1>13, <2>1, <2>2 DEF StatFile, Hash
  <2> QED
    BY <1>13, <2>3, <2>4 DEF StatFile
<1>14. ASSUME ScanDone PROVE Label'
  BY <1>14 DEF ScanDone
<1>15. ASSUME HashDone PROVE Label'
  BY <1>15 DEF HashDone
<1>16. ASSUME Commit PROVE Label'
  BY <1>16 DEF Commit
<1>17. ASSUME WriteSkips PROVE Label'
  BY <1>17 DEF WriteSkips
<1>18. ASSUME PrecisionFails PROVE Label'
  BY <1>18 DEF PrecisionFails, EndRun
<1>19. ASSUME RunFails PROVE Label'
  BY <1>19 DEF RunFails, PersistError, EndRun
<1>20. ASSUME MarkPending PROVE Label'
  BY <1>20 DEF MarkPending, SetPending
<1>21. ASSUME MarkPendingFails PROVE Label'
  BY <1>21 DEF MarkPendingFails, PersistError, EndRun
<1>22. ASSUME Finish PROVE Label'
  <2>1. /\ UNCHANGED <<disk, edits, used, row, graph, hash>> /\ row
        /\ \A f \in File : graph[f] \in {disk[f].c, Skipped}
    BY <1>22 DEF Finish
  <2>2. EndRun
    BY <1>22 DEF Finish
  <2>3. HistoryOK' /\ HashesOK(hash)' /\ RowsOK' /\ RunOK' /\ ScanOK' /\ HashPassOK' /\ CommittedOK'
    BY <2>1, <2>2 DEF EndRun
  <2>4. FailClosed'
    BY <2>2 DEF EndRun
  <2>5. ProjectOK' /\ IdentityOK' /\ LabelledIsScanned'
    <3>1. CASE status' = "captured" /\ ident' = Capture
      <4>1. Capture # Failed
        BY DEF Identity, State
      <4> QED
        BY <2>1, <2>2, <3>1, <4>1 DEF EndRun
    <3>2. CASE PersistError
      BY <2>1, <2>2, <3>2 DEF PersistError, EndRun
    <3> QED
      BY <1>22, <3>1, <3>2 DEF Finish
  <2> QED
    BY <2>3, <2>4, <2>5
<1>23. ASSUME Crash PROVE Label'
  BY <1>23 DEF Crash, EndRun
<1>24. ASSUME Read \/ UNCHANGED vars PROVE Label'
  <2>1. UNCHANGED <<disk_vars, db_vars, run_vars>>
    BY <1>24 DEF Read, ReadRecord, CompareLive, ReadGraph, RereadRecord, RecompareLive,
                 Done, vars
  <2> QED
    BY <2>1
<1> QED
  BY <1>2, <1>3, <1>4, <1>5, <1>6, <1>7, <1>8, <1>9, <1>10, <1>11, <1>12, <1>13, <1>14, <1>15, <1>16, <1>17, <1>18, <1>19, <1>20, <1>21, <1>22, <1>23, <1>24 DEF Next, Begin, Passes, End

LEMMA LabelHolds ==
    ASSUME ~LiveEdits, ~Reverts
    PROVE  Spec => []IInv
<1>1. IInv /\ [Next]_vars => IInv'
  BY LabelNext
<1> QED
  BY <1>1, LabelInit, PTL DEF Spec

\* The graph is never labelled with a checkout state it was not extracted from,
\* for any checkout.
THEOREM LabelCorrect ==
    ASSUME ~LiveEdits, ~Reverts
    PROVE  Spec => []LabelledIsScanned
<1>1. IInv => LabelledIsScanned
  BY DEF IInv
<1> QED
  BY <1>1, LabelHolds, PTL

\* What a run in progress may find as the status: the start of each of the three
\* entry points has taken the captured one away, or there was none, or the run
\* did not see that there was one.
ClosedInv == row \in BOOLEAN /\ FailClosed /\ ProjectOK

LEMMA ClosedNext == ClosedInv /\ [Next]_vars => ClosedInv'
<1> SUFFICES ASSUME ClosedInv, [Next]_vars PROVE ClosedInv'
  OBVIOUS
<1> USE DEF ClosedInv, FailClosed, ProjectOK, label_vars, db_vars, run_vars, SetPending, PersistError, EndRun
<1>1. ASSUME NEW f \in File, NEW c \in State, Edit(f, c) PROVE ClosedInv'
  BY <1>1 DEF Edit
<1>2. ASSUME Begin PROVE ClosedInv'
  <2>1. ASSUME NEW force \in BOOLEAN, BeginHandler(force) PROVE ClosedInv'
    <3>1. PICK existed \in {row, FALSE} : Invalidate(existed)
      BY <2>1 DEF BeginHandler
    <3>2. pc' = "begun" /\ row' = row
      BY <2>1 DEF BeginHandler, BeginRun
    <3>3. CASE existed = FALSE
      <4>1. blind' = (row /\ ~existed) /\ status' = status
        BY <3>1, <3>3 DEF Invalidate
      <4> QED
        BY <3>2, <3>3, <4>1
    <3>4. CASE existed = TRUE
      <4>1. row = TRUE /\ status' = "pending"
        BY <3>1, <3>4 DEF Invalidate
      <4> QED
        BY <3>2, <4>1
    <3> QED
      BY <3>1, <3>3, <3>4
  <2> QED
    BY <1>2, <2>1 DEF Begin, BeginSync, BeginAuto, SkipAuto, BeginRun, Invalidate
<1>3. ASSUME Passes PROVE ClosedInv'
  BY <1>3 DEF Passes, Discover, ClassifyFull, ClassifyIncremental, ClassifyNoop, Scan,
              HashFile, StatFile, ScanDone, HashDone, Commit, WriteSkips
<1>4. ASSUME End PROVE ClosedInv'
  BY <1>4 DEF End, PrecisionFails, RunFails, MarkPending, MarkPendingFails, Finish, Crash
<1>5. ASSUME Read \/ UNCHANGED vars PROVE ClosedInv'
  BY <1>5 DEF Read, ReadRecord, CompareLive, ReadGraph, RereadRecord, RecompareLive, Done, vars
<1> QED
  BY <1>1, <1>2, <1>3, <1>4, <1>5 DEF Next

\* A run in progress leaves no label, so what crashes in it fails closed, unless
\* the run took the project for a new one; also when the checkout is edited
\* under the run and contents come back.
THEOREM ClosedCorrect == Spec => []FailClosed
<1>1. Init => ClosedInv
  BY DEF Init, RunIdle, ClosedInv, FailClosed, ProjectOK
<1>2. ClosedInv /\ [Next]_vars => ClosedInv'
  BY ClosedNext
<1>3. ClosedInv => FailClosed
  BY DEF ClosedInv
<1> QED
  BY <1>1, <1>2, <1>3, PTL DEF Spec

-----------------------------------------------------------------------------
(* The answers.  While a request holds an identity, either the checkout has *)
(* moved away from it, and cannot come back, or every row the request has   *)
(* read and every row it can still read describes that identity: a run that *)
(* commits in between has read the same checkout.                           *)

\* The checkout is no longer what the request's identity says.
Moved(r) == \E f \in File : disk[f].c # rid[r][f]

RequestOK(r) ==
    /\ rpc[r] = "idle" => seen[r] = Unread
    /\ rpc[r] # "idle" =>
          /\ rid[r] \in Identity /\ \A f \in File : rid[r][f] \in used[f]
          /\ \/ Moved(r)
             \/ \A f \in File : /\ graph[f] \in {rid[r][f], Skipped}
                                /\ seen[r][f] \in {rid[r][f], Skipped, Failed}
    /\ rpc[r] \in {"rechecking", "answered"} => \A f \in File : seen[r][f] # Failed

RequestInv == \A r \in Reader : RequestOK(r)

LEMMA RequestInit == Init => RequestInv
  BY DEF Init, RequestInv, RequestOK

\* What a run does outside its commit is none of the requests' business but for
\* the label.
RunStep ==
    /\ UNCHANGED <<disk_vars, graph, read_vars>>

LEMMA RunSteps ==
    ASSUME [Next]_vars
    PROVE  \/ \E f \in File, c \in State : Edit(f, c)
           \/ Commit \/ Crash \/ Read \/ RunStep
<1> USE DEF RunStep, disk_vars, label_vars, db_vars, read_vars, Invalidate, SetPending, PersistError
<1>1. ASSUME Begin PROVE RunStep
  BY <1>1 DEF Begin, BeginHandler, BeginSync, BeginAuto, SkipAuto
<1>2. ASSUME Passes, ~Commit PROVE RunStep
  BY <1>2 DEF Passes, Discover, ClassifyFull, ClassifyIncremental, ClassifyNoop, Scan,
              HashFile, StatFile, ScanDone, HashDone, WriteSkips
<1>3. ASSUME End, ~Crash PROVE RunStep
  BY <1>3 DEF End, PrecisionFails, RunFails, MarkPending, MarkPendingFails, Finish
<1>4. ASSUME UNCHANGED vars PROVE RunStep
  BY <1>4 DEF vars
<1> QED
  BY <1>1, <1>2, <1>3, <1>4 DEF Next

\* A content is never taken twice, so a checkout that moved has moved for good.
LEMMA MovedStays ==
    ASSUME ~Reverts, TypeOK, NEW f \in File, NEW c \in State, Edit(f, c),
           NEW r \in Reader, \A g \in File : rid[r][g] \in used[g], Moved(r)
    PROVE  Moved(r)'
<1>1. PICK g \in File : disk[g].c # rid[r][g]
  BY DEF Moved
<1>2. disk'[g].c # rid[r][g] /\ rid' = rid
  BY <1>1 DEF Edit, TypeOK, read_vars
<1> QED
  BY <1>2 DEF Moved

LEMMA RequestNext ==
    ASSUME ~Reverts, IInv, RequestInv, [Next]_vars PROVE RequestInv'
<1> USE DEF RequestInv
<1>0. TypeOK
  BY DEF IInv
<1>1. ASSUME NEW f \in File, NEW c \in State, Edit(f, c) PROVE RequestInv'
  <2>1. \A g \in File : used[g] \subseteq used'[g]
    BY <1>0, <1>1 DEF Edit, TypeOK
  <2>2. UNCHANGED <<graph, status, ident, rpc, rid, seen>>
    BY <1>1 DEF Edit, label_vars, db_vars, read_vars
  <2>3. ASSUME NEW r \in Reader PROVE RequestOK(r)'
    <3>1. CASE rpc[r] = "idle"
      BY <2>2, <3>1 DEF RequestOK
    <3>2. CASE rpc[r] # "idle"
      <4>1. \A g \in File : rid[r][g] \in used[g] /\ rid[r][g] \in used'[g]
        BY <2>1, <3>2 DEF RequestOK
      <4>2. Moved(r) => Moved(r)'
        BY <1>0, <1>1, <4>1, MovedStays
      <4> QED
        BY <2>2, <3>2, <4>1, <4>2 DEF RequestOK
    <3> QED
      BY <3>1, <3>2
  <2> QED
    BY <2>3
<1>2. CASE RunStep
  BY <1>2 DEF RunStep, RequestOK, Moved, disk_vars, read_vars
<1>3. CASE Commit
  <2>1. /\ \A f \in File : graph'[f] \in {disk[f].c, Skipped}
        /\ UNCHANGED <<disk, used, rpc, rid, seen>>
    BY <1>3 DEF Commit, IInv, ScanOK, disk_vars, read_vars
  <2>2. ASSUME NEW r \in Reader PROVE RequestOK(r)'
    <3>1. CASE rpc[r] = "idle" \/ Moved(r)
      BY <2>1, <3>1 DEF RequestOK, Moved
    <3>2. CASE rpc[r] # "idle" /\ ~Moved(r)
      <4>1. \A f \in File : disk[f].c = rid[r][f]
        BY <3>2 DEF Moved
      <4> QED
        BY <2>1, <3>2, <4>1 DEF RequestOK, Moved
    <3> QED
      BY <3>1, <3>2
  <2> QED
    BY <2>2
<1>4. CASE Crash
  BY <1>4 DEF Crash, RequestOK, disk_vars, label_vars, db_vars
<1>5. CASE Read
  <2>1. PICK r \in Reader :
           \/ ReadRecord(r) \/ CompareLive(r) \/ \E f \in File : ReadGraph(r, f)
           \/ RereadRecord(r) \/ RecompareLive(r) \/ Done(r)
    BY <1>5 DEF Read
  <2>2. /\ UNCHANGED <<disk, used, graph, status, ident>>
        /\ \A q \in Reader \ {r} : rpc'[q] = rpc[q] /\ rid'[q] = rid[q] /\ seen'[q] = seen[q]
    BY <1>0, <2>1 DEF TypeOK, ReadRecord, CompareLive, ReadGraph, RereadRecord, RecompareLive,
                      Done, disk_vars, label_vars, db_vars
  <2>3. \A q \in Reader \ {r} : RequestOK(q)'
    BY <2>2 DEF RequestOK, Moved
  <2>4. RequestOK(r)'
    <3>1. CASE ReadRecord(r)
      <4>1. /\ rpc[r] = "idle" /\ rpc'[r] = "checking" /\ rid'[r] = ident /\ seen' = seen
            /\ status = "captured"
        BY <1>0, <3>1 DEF ReadRecord, TypeOK
      <4>2. \/ \A f \in File : graph[f] \in {ident[f], Skipped}
            \/ \E f \in File : disk[f].c # ident[f]
        <5>1. ident \in Identity /\ (Capture # ident => \E f \in File : disk[f].c # ident[f])
          BY <1>0, <4>1 DEF TypeOK, IInv, IdentityOK, Identity, Capture
        <5> QED
          BY <4>1, <5>1 DEF IInv, LabelledIsScanned
      <4>3. ident \in Identity /\ \A f \in File : ident[f] \in used[f]
        BY <1>0, <4>1 DEF TypeOK, IInv, IdentityOK
      <4> QED
        BY <2>2, <4>1, <4>2, <4>3 DEF RequestOK, Moved, Unread
    <3>2. CASE CompareLive(r) \/ RereadRecord(r) \/ RecompareLive(r)
      <4>1. /\ rpc[r] # "idle" /\ rpc'[r] # "idle" /\ rid' = rid /\ seen' = seen
            /\ rpc'[r] \in {"rechecking", "answered"} => \A f \in File : seen[r][f] # Failed
        BY <1>0, <3>2 DEF CompareLive, RereadRecord, RecompareLive, HasRead, TypeOK, RequestOK
      <4> QED
        BY <2>2, <4>1 DEF RequestOK, Moved
    <3>3. ASSUME NEW f \in File, ReadGraph(r, f) PROVE RequestOK(r)'
      <4>1. /\ rpc[r] = "reading" /\ rpc' = rpc /\ rid' = rid
            /\ \A g \in File : seen'[r][g] \in {seen[r][g], graph[g]}
        BY <1>0, <3>3 DEF ReadGraph, TypeOK
      <4> QED
        BY <2>2, <4>1 DEF RequestOK, Moved
    <3>4. CASE Done(r)
      BY <1>0, <3>4 DEF Done, TypeOK, RequestOK
    <3> QED
      BY <2>1, <3>1, <3>2, <3>3, <3>4
  <2> QED
    BY <2>2, <2>3, <2>4
<1> QED
  BY <1>1, <1>2, <1>3, <1>4, <1>5, RunSteps

-----------------------------------------------------------------------------
(* Requests implement the contract: an answer is its Answer, the end of a  *)
(* request or a crash its Drop, an edit its Change; the rest stutters.     *)

answers == [r \in Reader |-> described(r)]

LEMMA ContractInit == Init => Contract!Init
<1> SUFFICES ASSUME Init PROVE Contract!Init
  OBVIOUS
<1>1. PICK d \in Identity : disk = [f \in File |-> [c |-> d[f], t |-> 1]]
  BY DEF Init
<1>2. Capture \in [File -> Content \cup {Absent}]
  BY <1>1 DEF Capture, Identity, State
<1>3. answers = [r \in Reader |-> Failed]
  BY DEF Init, answers, described
<1> QED
  BY <1>2, <1>3 DEF Contract!Init, answers

\* An answer gives, for the files that were not skipped, the checkout as it is.
LEMMA AnswerStep ==
    ASSUME TypeOK, RequestInv, NEW r \in Reader, RecompareLive(r)
    PROVE  Contract!Answer(r)
<1> DEFINE K == {f \in File : seen[r][f] # Skipped}
<1>1. /\ rpc[r] = "rechecking" /\ Capture = rid[r] /\ rpc' = [rpc EXCEPT ![r] = "answered"]
      /\ UNCHANGED <<disk, rid, seen>>
  BY DEF RecompareLive, disk_vars
<1>2. \A f \in File : disk[f].c = rid[r][f]
  BY <1>1 DEF Capture
<1>3. \A f \in K : seen[r][f] = Capture[f]
  BY <1>1, <1>2 DEF RequestInv, RequestOK, Moved, Capture
<1>4. described(r) = Failed
  BY <1>1 DEF described
<1>5. described(r)' = [f \in K |-> Capture[f]]
  <2>1. rpc'[r] = "answered" /\ seen' = seen
    BY <1>1 DEF TypeOK
  <2>2. described(r)' = [f \in K |-> seen[r][f]]
    BY <2>1 DEF described
  <2> QED
    BY <1>3, <2>2
<1>6. \A q \in Reader \ {r} : described(q)' = described(q)
  <2>1. \A q \in Reader \ {r} : rpc'[q] = rpc[q] /\ seen' = seen
    BY <1>1 DEF TypeOK
  <2> QED
    BY <2>1 DEF described
<1>7. answers' = [answers EXCEPT ![r] = [f \in K |-> Capture[f]]]
  BY <1>5, <1>6 DEF answers
<1>8. K \in SUBSET File /\ answers[r] = Failed /\ UNCHANGED Capture
  BY <1>1, <1>4 DEF answers, Capture
<1> HIDE DEF K
<1> QED
  BY <1>7, <1>8 DEF Contract!Answer, answers

\* The end of some requests takes their answers back, and only theirs.
LEMMA DropStep ==
    ASSUME NEW R \in SUBSET Reader, UNCHANGED disk,
           \A r \in R : rpc'[r] = "idle",
           \A r \in Reader \ R : rpc'[r] = rpc[r] /\ seen'[r] = seen[r]
    PROVE  Contract!Drop
<1>1. \A r \in R : described(r)' = Failed
  BY DEF described
<1>2. \A r \in Reader \ R : described(r)' = described(r)
  BY DEF described
<1>3. answers' = [r \in Reader |-> IF r \in R THEN Failed ELSE answers[r]]
  BY <1>1, <1>2 DEF answers
<1>4. UNCHANGED Capture
  BY DEF Capture
<1> QED
  BY <1>3, <1>4 DEF Contract!Drop, answers

LEMMA ContractStep ==
    ASSUME IInv, RequestInv, [Next]_vars
    PROVE  [Contract!Next]_<<Capture, answers>>
<1>0. TypeOK
  BY DEF IInv
<1>1. ASSUME NEW f \in File, NEW c \in State, Edit(f, c) PROVE Contract!Change(f)
  <2>1. disk' = [disk EXCEPT ![f] = [c |-> c, t |-> edits + 1]] /\ UNCHANGED <<rpc, seen>>
    BY <1>1 DEF Edit, read_vars
  <2>2. Capture' = [Capture EXCEPT ![f] = c]
    BY <1>0, <2>1 DEF Capture, TypeOK
  <2>3. UNCHANGED answers
    BY <2>1 DEF answers, described
  <2> QED
    BY <2>2, <2>3 DEF Contract!Change, answers, State
<1>2. CASE RunStep \/ Commit
  BY <1>2 DEF RunStep, Commit, disk_vars, read_vars, Capture, answers, described
<1>3. CASE Crash
  BY <1>3, DropStep DEF Crash, disk_vars, Contract!Next
<1>4. CASE Read
  <2>1. PICK r \in Reader :
           \/ ReadRecord(r) \/ CompareLive(r) \/ \E f \in File : ReadGraph(r, f)
           \/ RereadRecord(r) \/ RecompareLive(r) \/ Done(r)
    BY <1>4 DEF Read
  <2>2. CASE RecompareLive(r)
    BY <1>0, <2>2, AnswerStep DEF Contract!Next
  <2>3. CASE Done(r)
    <3>1. /\ UNCHANGED disk /\ rpc'[r] = "idle"
          /\ \A q \in Reader \ {r} : rpc'[q] = rpc[q] /\ seen'[q] = seen[q]
      BY <1>0, <2>3 DEF Done, disk_vars, TypeOK
    <3>2. {r} \in SUBSET Reader
      OBVIOUS
    <3> QED
      BY <3>1, <3>2, DropStep DEF Contract!Next
  <2>4. ASSUME ReadRecord(r) \/ CompareLive(r) \/ (\E f \in File : ReadGraph(r, f))
                  \/ RereadRecord(r)
        PROVE  UNCHANGED <<Capture, answers>>
    <3>1. UNCHANGED disk /\ \A q \in Reader \ {r} : rpc'[q] = rpc[q] /\ seen'[q] = seen[q]
      BY <1>0, <2>4 DEF ReadRecord, CompareLive, ReadGraph, RereadRecord, disk_vars, TypeOK
    <3>2. rpc[r] # "answered" /\ rpc'[r] # "answered"
      BY <1>0, <2>4 DEF ReadRecord, CompareLive, ReadGraph, RereadRecord, HasRead, TypeOK
    <3>3. \A q \in Reader : described(q)' = described(q)
      BY <3>1, <3>2 DEF described
    <3> QED
      BY <3>1, <3>3 DEF Capture, answers
  <2> QED
    BY <2>1, <2>2, <2>3, <2>4
<1> QED
  BY <1>1, <1>2, <1>3, <1>4, RunSteps DEF Contract!Next

\* Every evidence answer describes the checkout as it is when it is given, for
\* any number of requests, edits and runs that commit while the requests read.
THEOREM EvidenceCorrect ==
    ASSUME ~LiveEdits, ~Reverts
    PROVE  Spec => EvidenceContractHolds
<1>1. RequestInv /\ IInv /\ [Next]_vars => RequestInv'
  BY RequestNext
<1>2. RequestInv /\ IInv /\ [Next]_vars => [Contract!Next]_<<Capture, answers>>
  BY ContractStep
<1>3. Spec => Contract!Init /\ [][Contract!Next]_<<Capture, answers>>
  BY <1>1, <1>2, RequestInit, ContractInit, LabelHolds, PTL DEF Spec
<1> QED
  BY <1>3, PTL DEF EvidenceContractHolds, Contract!Spec, answers
=============================================================================
