-------------------------- MODULE Operations_proof --------------------------
(***************************************************************************)
(* Proofs about what crashes may leave behind, for any constants: bulk     *)
(* writes, the migration, the self-update, the artifacts, and the agent's  *)
(* conversation and answer.  Each is proved of the component's own         *)
(* specification, of which the run of MCOperations checks a small instance.*)
(***************************************************************************)
EXTENDS MCOperations, SequenceTheorems, FiniteSetTheorems, TLAPS

-----------------------------------------------------------------------------
(* Bulk writes.  The inductive invariant says where a file can be damaged     *)
(* from (spilled pages, bytes not synced) and that a marker covers it there,  *)
(* or its run has none, as long as no two processes have the database open at *)
(* one time and no run ends with a cancelled context.                         *)

InRun == {"marked", "bulk", "intx", "txdone"}

\* Nobody shares the database: one process at most is at work.
OneAtWork ==
    ~shared => \A p, q \in Proc : pc[p] # "closed" /\ pc[q] # "closed" => p = q

\* Pages are spilled in a transaction only.
SpilledInTx == spilled => tx # NoProc

\* A run is marked, unless its marker could not be created, and is back in WAL
\* when the marker is about to go.
RunIsMarked ==
    \A p \in Proc :
        /\ pc[p] \in InRun => marker \/ bare
        /\ pc[p] \in {"idle", "plain", "marked", "restored"} => journal = "wal" /\ sync[p] = "normal"
        /\ pc[p] \in {"bulk", "intx", "txdone"} /\ sync[p] = "off" => journal = "memory"
        /\ pc[p] = "deleting" => ~unsynced

\* Whatever can damage the file, and the damage, is marked.
DangerIsMarked ==
    /\ unsynced \/ spilled \/ pages = "torn" => marker \/ bare
    /\ unsynced => journal = "memory"
    /\ pages = "torn" /\ ~bare => \A p \in Proc : pc[p] = "closed"

Guarded == ~shared /\ ~cutshort => RunIsMarked /\ DangerIsMarked

BulkInv == TypeOK /\ OneAtWork /\ SpilledInTx /\ Guarded

LEMMA BulkInitHolds == Init => BulkInv
  BY DEF Init, BulkInv, TypeOK, OneAtWork, SpilledInTx, Guarded, RunIsMarked,
         DangerIsMarked, InRun

\* TypeOK is inductive by itself.
LEMMA BulkTypeStep == TypeOK /\ [Next]_vars => TypeOK'
  <1> SUFFICES ASSUME TypeOK, [Next]_vars PROVE TypeOK' OBVIOUS
  <1> USE BulkAssumption DEF TypeOK, Goto, file_vars, conn_vars, run_vars
  <1>1. ASSUME NEW p \in Proc, Check(p) PROVE TypeOK'
    BY <1>1 DEF Check, recoverStaleSHM, checkAndClearBulkWriteMarker, EnterWal, removeBulkWriteMarker
  <1>2. ASSUME NEW p \in Proc, Connect(p) PROVE TypeOK' BY <1>2 DEF Connect, EnterWal
  <1>3. ASSUME NEW p \in Proc, ConnectFails(p) PROVE TypeOK' BY <1>3 DEF ConnectFails
  <1>4. ASSUME NEW p \in Proc, Close(p) PROVE TypeOK' BY <1>4 DEF Close
  <1>5. ASSUME NEW p \in Proc, Mark(p) PROVE TypeOK' BY <1>5 DEF Mark, writeBulkWriteMarker
  <1>6. ASSUME NEW p \in Proc, Switch(p) PROVE TypeOK' BY <1>6 DEF Switch
  <1>7. ASSUME NEW p \in Proc, BeginTx(p) PROVE TypeOK'
    <2>1. CASE cancelled[p] BY <1>7, <2>1 DEF BeginTx
    <2>2. CASE ~cancelled[p] BY <1>7, <2>2 DEF BeginTx
    <2> QED BY <2>1, <2>2
  <1>8. ASSUME NEW p \in Proc, Spill(p) PROVE TypeOK' BY <1>8 DEF Spill
  <1>9. ASSUME NEW p \in Proc, EndTx(p) PROVE TypeOK' BY <1>9 DEF EndTx
  <1>10. ASSUME NEW p \in Proc, Restore(p) PROVE TypeOK' BY <1>10 DEF Restore, EnterWal
  <1>11. ASSUME NEW p \in Proc, Unmark(p) PROVE TypeOK' BY <1>11 DEF Unmark, removeBulkWriteMarker
  <1>12. ASSUME NEW p \in Proc, PlainWrite(p) PROVE TypeOK' BY <1>12 DEF PlainWrite
  <1>13. ASSUME NEW p \in Proc, Cancel(p) PROVE TypeOK' BY <1>13 DEF Cancel
  <1>14. ASSUME NEW p \in Proc, DeleteDb(p) PROVE TypeOK' BY <1>14 DEF DeleteDb
  <1>15. ASSUME NEW p \in Proc, DeleteSidecars(p) PROVE TypeOK' BY <1>15 DEF DeleteSidecars
  <1>16. ASSUME NEW p \in Proc, Kill(p) PROVE TypeOK' BY <1>16 DEF Kill
  <1>17. ASSUME PowerLoss PROVE TypeOK' BY <1>17 DEF PowerLoss
  <1>18. ASSUME UNCHANGED vars PROVE TypeOK' BY <1>18 DEF vars
  <1> QED BY <1>1, <1>2, <1>3, <1>4, <1>5, <1>6, <1>7, <1>8, <1>9, <1>10, <1>11, <1>12, <1>13,
             <1>14, <1>15, <1>16, <1>17, <1>18 DEF Next, OpenOrClose, Run
\* Who moves in an unshared database moves alone.
LEMMA MovesAlone ==
    ASSUME TypeOK, OneAtWork, NEW p \in Proc, NEW place, Goto(p, place),
           pc[p] # "closed" \/ place # "closed"
    PROVE  /\ OneAtWork'
           /\ ~shared' => /\ ~shared
                         /\ pc'[p] = place
                         /\ \A q \in Proc : q # p => pc[q] = "closed" /\ pc'[q] = "closed"
  BY DEF TypeOK, OneAtWork, Goto, Alone

\* The invariant is inductive.
LEMMA BulkStep == BulkInv /\ [Next]_vars => BulkInv'
  <1> SUFFICES ASSUME BulkInv, [Next]_vars PROVE BulkInv' OBVIOUS
  <1>t. TypeOK /\ TypeOK' BY BulkTypeStep DEF BulkInv
  <1> USE <1>t, BulkAssumption
  <1> USE DEF BulkInv, SpilledInTx, Guarded, RunIsMarked, DangerIsMarked, InRun,
              file_vars, conn_vars, run_vars
  <1>1. ASSUME NEW p \in Proc, Check(p) PROVE BulkInv'
    <2>1. PICK place : Goto(p, place) /\ (pc[p] # "closed" \/ place # "closed")
      BY <1>1 DEF Check
    <2>2. OneAtWork' BY <2>1, MovesAlone
    <2>3. SpilledInTx' BY <1>1 DEF Check, recoverStaleSHM, checkAndClearBulkWriteMarker, EnterWal, removeBulkWriteMarker,
                QuickCheck, TypeOK
    <2>4. pages' = pages /\ tx' = tx /\ spilled' = spilled /\ sync' = sync /\ cutshort' = cutshort
      BY <1>1 DEF Check
    <2>5. ~shared' => /\ ~shared /\ pc'[p] = "checked" /\ pc[p] = "closed"
                      /\ \A q \in Proc : q # p => pc[q] = "closed" /\ pc'[q] = "closed"
      BY <1>1, <2>1, MovesAlone DEF Check
    <2>6. ASSUME marker PROVE ~shared' => Guarded'
      <3>1. pages = "ok" /\ journal' = "wal" /\ unsynced' = (unsynced /\ journal = "wal")
        BY <1>1, <2>6 DEF Check, checkAndClearBulkWriteMarker, EnterWal, QuickCheck
      <3>2. ~shared' /\ ~cutshort => ~unsynced' /\ ~spilled'
        BY <2>4, <2>5, <3>1 DEF TypeOK
      <3> QED BY <2>4, <2>5, <3>1, <3>2 DEF TypeOK
    <2>7. ASSUME ~marker PROVE ~shared' => Guarded'
      <3>1. UNCHANGED <<journal, unsynced, bare, marker, main>>
        BY <1>1, <2>7 DEF Check, checkAndClearBulkWriteMarker
      <3> SUFFICES ASSUME ~shared', ~cutshort' PROVE RunIsMarked' /\ DangerIsMarked' OBVIOUS
      <3>2. RunIsMarked /\ DangerIsMarked BY <2>4, <2>5
      <3>3. pages = "torn" => bare BY <2>7, <3>2
      <3>4. RunIsMarked'
        <4>1. \A q \in Proc : pc'[q] \in {"checked", "closed"} BY <2>5
        <4> QED BY <4>1
      <3>5. DangerIsMarked' BY <2>4, <3>1, <3>2, <3>3
      <3> QED BY <3>4, <3>5
    <2> QED BY <2>2, <2>3, <2>6, <2>7
<1>2. ASSUME NEW p \in Proc, Connect(p) PROVE BulkInv'
    <2>1. PICK place : Goto(p, place) /\ (pc[p] # "closed" \/ place # "closed")
      BY <1>2 DEF Connect
    <2>2. OneAtWork' BY <2>1, MovesAlone
    <2>3. SpilledInTx' BY <1>2 DEF Connect, EnterWal, TypeOK
    <2>4. ~shared' => Guarded'
      BY <1>2, <2>1, MovesAlone DEF Connect, EnterWal, TypeOK
    <2> QED BY <2>2, <2>3, <2>4
  <1>3. ASSUME NEW p \in Proc, ConnectFails(p) PROVE BulkInv'
    <2>1. PICK place : Goto(p, place) /\ (pc[p] # "closed" \/ place # "closed")
      BY <1>3 DEF ConnectFails
    <2>2. OneAtWork' BY <2>1, MovesAlone
    <2>3. SpilledInTx' BY <1>3 DEF ConnectFails, TypeOK
    <2>4. ~shared' => Guarded'
      BY <1>3, <2>1, MovesAlone DEF ConnectFails, TypeOK
    <2> QED BY <2>2, <2>3, <2>4
  <1>4. ASSUME NEW p \in Proc, Close(p) PROVE BulkInv'
    <2>1. PICK place : Goto(p, place) /\ (pc[p] # "closed" \/ place # "closed")
      BY <1>4 DEF Close
    <2>2. OneAtWork' BY <2>1, MovesAlone
    <2>3. SpilledInTx' BY <1>4 DEF Close, TypeOK
    <2>4. ~shared' => Guarded'
      BY <1>4, <2>1, MovesAlone DEF Close, TypeOK
    <2> QED BY <2>2, <2>3, <2>4
  <1>5. ASSUME NEW p \in Proc, Mark(p) PROVE BulkInv'
    <2>1. PICK place : Goto(p, place) /\ (pc[p] # "closed" \/ place # "closed")
      BY <1>5 DEF Mark, writeBulkWriteMarker
    <2>2. OneAtWork' BY <2>1, MovesAlone
    <2>3. SpilledInTx' BY <1>5 DEF Mark, writeBulkWriteMarker, TypeOK
    <2>4. ~shared' => Guarded'
      BY <1>5, <2>1, MovesAlone DEF Mark, writeBulkWriteMarker, TypeOK
    <2> QED BY <2>2, <2>3, <2>4
  <1>6. ASSUME NEW p \in Proc, Switch(p) PROVE BulkInv'
    <2>1. PICK place : Goto(p, place) /\ (pc[p] # "closed" \/ place # "closed")
      BY <1>6 DEF Switch
    <2>2. OneAtWork' BY <2>1, MovesAlone
    <2>3. SpilledInTx' BY <1>6 DEF Switch, Open, TypeOK
    <2>4. ~shared' => Guarded'
      BY <1>6, <2>1, MovesAlone DEF Switch, Open, TypeOK
    <2> QED BY <2>2, <2>3, <2>4
  <1>7. ASSUME NEW p \in Proc, BeginTx(p) PROVE BulkInv'
    <2>1. PICK place : Goto(p, place) /\ (pc[p] # "closed" \/ place # "closed")
      BY <1>7 DEF BeginTx
    <2>2. OneAtWork' BY <2>1, MovesAlone
    <2>3. SpilledInTx' BY <1>7 DEF BeginTx, TypeOK
    <2>4. ~shared' => Guarded'
      BY <1>7, <2>1, MovesAlone DEF BeginTx, TypeOK
    <2> QED BY <2>2, <2>3, <2>4
  <1>8. ASSUME NEW p \in Proc, EndTx(p) PROVE BulkInv'
    <2>1. PICK place : Goto(p, place) /\ (pc[p] # "closed" \/ place # "closed")
      BY <1>8 DEF EndTx
    <2>2. OneAtWork' BY <2>1, MovesAlone
    <2>3. SpilledInTx' BY <1>8 DEF EndTx, TypeOK
    <2>4. ~shared' => Guarded'
      BY <1>8, <2>1, MovesAlone DEF EndTx, TypeOK
    <2> QED BY <2>2, <2>3, <2>4
  <1>9. ASSUME NEW p \in Proc, Restore(p) PROVE BulkInv'
    <2>1. PICK place : Goto(p, place) /\ (pc[p] # "closed" \/ place # "closed")
      BY <1>9 DEF Restore
    <2>2. OneAtWork' BY <2>1, MovesAlone
    <2>3. SpilledInTx' BY <1>9 DEF Restore, EnterWal, TypeOK
    <2>4. ~shared' => Guarded'
      BY <1>9, <2>1, MovesAlone DEF Restore, EnterWal, TypeOK
    <2> QED BY <2>2, <2>3, <2>4
  <1>10. ASSUME NEW p \in Proc, Unmark(p) PROVE BulkInv'
    <2>1. PICK place : Goto(p, place) /\ (pc[p] # "closed" \/ place # "closed")
      BY <1>10 DEF Unmark, removeBulkWriteMarker
    <2>2. OneAtWork' BY <2>1, MovesAlone
    <2>3. SpilledInTx' BY <1>10 DEF Unmark, removeBulkWriteMarker, TypeOK
    <2>4. ~shared' => Guarded'
      BY <1>10, <2>1, MovesAlone DEF Unmark, removeBulkWriteMarker, TypeOK
    <2> QED BY <2>2, <2>3, <2>4
  <1>11. ASSUME NEW p \in Proc, PlainWrite(p) PROVE BulkInv'
    <2>1. PICK place : Goto(p, place) /\ (pc[p] # "closed" \/ place # "closed")
      BY <1>11 DEF PlainWrite
    <2>2. OneAtWork' BY <2>1, MovesAlone
    <2>3. SpilledInTx' BY <1>11 DEF PlainWrite, TypeOK
    <2>4. ~shared' => Guarded'
      BY <1>11, <2>1, MovesAlone DEF PlainWrite, TypeOK
    <2> QED BY <2>2, <2>3, <2>4
  <1>12. ASSUME NEW p \in Proc, DeleteDb(p) PROVE BulkInv'
    <2>1. PICK place : Goto(p, place) /\ (pc[p] # "closed" \/ place # "closed")
      BY <1>12 DEF DeleteDb
    <2>2. OneAtWork' BY <2>1, MovesAlone
    <2>3. SpilledInTx' BY <1>12 DEF DeleteDb, TypeOK
    <2>4. ~shared' => Guarded'
      BY <1>12, <2>1, MovesAlone DEF DeleteDb, TypeOK
    <2> QED BY <2>2, <2>3, <2>4
  <1>13. ASSUME NEW p \in Proc, DeleteSidecars(p) PROVE BulkInv'
    <2>1. PICK place : Goto(p, place) /\ (pc[p] # "closed" \/ place # "closed")
      BY <1>13 DEF DeleteSidecars
    <2>2. OneAtWork' BY <2>1, MovesAlone
    <2>3. SpilledInTx' BY <1>13 DEF DeleteSidecars, TypeOK
    <2>4. ~shared' => Guarded'
      BY <1>13, <2>1, MovesAlone DEF DeleteSidecars, TypeOK
    <2> QED BY <2>2, <2>3, <2>4
  <1>14. ASSUME NEW p \in Proc, Kill(p) PROVE BulkInv'
    <2>1. PICK place : Goto(p, place) /\ (pc[p] # "closed" \/ place # "closed")
      BY <1>14 DEF Kill
    <2>2. OneAtWork' BY <2>1, MovesAlone
    <2>3. SpilledInTx' BY <1>14 DEF Kill, TypeOK
    <2>4. ~shared' => Guarded'
      BY <1>14, <2>1, MovesAlone DEF Kill, TypeOK
    <2> QED BY <2>2, <2>3, <2>4
  <1>15. ASSUME NEW p \in Proc, Spill(p) PROVE BulkInv'
    <2>1. ~shared /\ ~cutshort => pc[p] = "intx"
      BY <1>15 DEF Spill, TypeOK
    <2> QED BY <1>15, <2>1 DEF Spill, TypeOK, OneAtWork
  <1>16. ASSUME NEW p \in Proc, Cancel(p) PROVE BulkInv'
    BY <1>16 DEF Cancel, OneAtWork
  <1>17. ASSUME PowerLoss PROVE BulkInv'
    BY <1>17 DEF PowerLoss, OneAtWork, TypeOK
  <1>18. ASSUME UNCHANGED vars PROVE BulkInv'
    BY <1>18 DEF vars, OneAtWork
  <1> QED BY <1>1, <1>2, <1>3, <1>4, <1>5, <1>6, <1>7, <1>8, <1>9, <1>10, <1>11, <1>12, <1>13,
             <1>14, <1>15, <1>16, <1>17, <1>18 DEF Next, OpenOrClose, Run

\* What Spec promises of the marker at any time, for any number of processes:
\* pages that a crash damaged are marked and are not served (OpenPath refuses
\* them), as long as no two processes had the database open, no run ended with a
\* cancelled context, and every run that did harm could create its marker.
THEOREM DamageCorrect == Spec => [](TypeOK /\ DamageIsSeen)
  <1>1. BulkInv => TypeOK /\ DamageIsSeen
    BY DEF BulkInv, Guarded, DangerIsMarked, DamageIsSeen, TornIsMarked, ServedIsSound, Open
  <1> QED BY BulkInitHolds, BulkStep, <1>1, PTL DEF Spec

-----------------------------------------------------------------------------
(* Migration.                                                              *)

MigrationTypes ==
    /\ target \in [Legacy -> 0..M!Tables \cup {NoTarget}]
    /\ current \in Legacy \cup {NoTarget}
    /\ todo \subseteq Legacy /\ hurt \subseteq Legacy
    /\ mpc \in {"down", "loop", "copy"}

\* The loop leaves no project without a database, and none half copied but the
\* one it is at and those it gave up.
LoopIsDone ==
    /\ mpc = "copy" <=> current # NoTarget
    /\ mpc = "copy" => target[current] # NoTarget
    /\ mpc # "down" => legacy /\ \A p \in Legacy \ todo : target[p] # NoTarget
    /\ \A p \in Legacy : target[p] \in {NoTarget, M!Tables} \/ p \in hurt \cup {current}
    /\ ~legacy => \A p \in Legacy : target[p] # NoTarget

MigrationInv == MigrationTypes /\ LoopIsDone

LEMMA MigrationStep == MigrationInv /\ [M!Next]_(M!vars) => MigrationInv'
  <1> SUFFICES ASSUME MigrationInv, [M!Next]_(M!vars) PROVE MigrationInv' OBVIOUS
  <1> USE OperationsAssumption DEF MigrationInv, MigrationTypes, LoopIsDone, M!Tables, M!MigrationAssumption
  <1>1. ASSUME M!Start PROVE MigrationInv' BY <1>1 DEF M!Start
  <1>2. ASSUME NEW p \in Legacy, M!Exists(p) PROVE MigrationInv' BY <1>2 DEF M!Exists
  <1>3. ASSUME NEW p \in Legacy, M!Open(p) PROVE MigrationInv' BY <1>3 DEF M!Open
  <1>4. ASSUME M!Copy PROVE MigrationInv' BY <1>4 DEF M!Copy
  <1>5. ASSUME M!Copied PROVE MigrationInv' BY <1>5 DEF M!Copied
  <1>6. ASSUME M!Failed PROVE MigrationInv' BY <1>6 DEF M!Failed, M!RestAfter
  <1>7. ASSUME M!renameLegacy PROVE MigrationInv' BY <1>7 DEF M!renameLegacy
  <1>8. ASSUME M!Crash PROVE MigrationInv' BY <1>8 DEF M!Crash
  <1>9. ASSUME UNCHANGED M!vars PROVE MigrationInv' BY <1>9 DEF M!vars
  <1> QED BY <1>1, <1>2, <1>3, <1>4, <1>5, <1>6, <1>7, <1>8, <1>9 DEF M!Next

\* When the legacy database is put away, every project has been copied whole or
\* its copying was seen to fail, wherever migrate was killed.
THEOREM MigrationCorrect == M!Spec => []PutAwayWhenMigrated
  <1>1. M!Init => MigrationInv
    BY OperationsAssumption DEF M!Init, MigrationInv, MigrationTypes, LoopIsDone, M!MigrationAssumption
  <1>2. MigrationInv => PutAwayWhenMigrated
    BY OperationsAssumption DEF MigrationInv, MigrationTypes, LoopIsDone, PutAwayWhenMigrated,
       M!PutAwayWhenMigrated, M!MigrationAssumption
  <1> QED BY <1>1, <1>2, MigrationStep, PTL DEF M!Spec

-----------------------------------------------------------------------------
(* Self-update.                                                            *)

Command == [pc : {"idle", "write", "backup", "rename", "verify"},
            data : U!Binary \cup {NoFile}, copied : BOOLEAN]

UpdateTypes ==
    /\ binary \in U!Binary /\ previous \in U!Binary
    /\ tmp \in U!Binary \cup {NoFile} /\ bak \in U!Binary \cup {NoFile}
    /\ update \in Command /\ flawed \in BOOLEAN
    /\ \A r \in published : r.version \in Version

\* A verified release, newer than what the command began with, that is good if
\* it starts.
IsOffered(b) ==
    /\ U!Newer(b.version, previous.version)
    /\ \E r \in published : r.version = b.version /\ (b.starts <=> r.archive = "good")

\* Up to the rename the binary is the old one; after it, the release, which was
\* written whole, and the old one is at .bak if it was copied.
UpdateIsOrderly ==
    /\ update.pc \in {"write", "backup", "rename"} => binary = previous
    /\ update.pc = "write" => update.data \in U!Binary /\ IsOffered(update.data)
    /\ update.pc \in {"backup", "rename"} => tmp \in U!Binary /\ IsOffered(tmp)
    /\ update.pc = "verify" => IsOffered(binary) /\ binary.mode = "run"
    /\ update.pc \in {"rename", "verify"} /\ update.copied => bak = U!copyFile(previous)
    /\ update.pc \in {"write", "backup"} => ~update.copied

UpdateInv == UpdateTypes /\ UpdateIsOrderly /\ UpdateKeepsABinary

\* A binary with another mode is the same build.
LEMMA ModeOnly ==
    ASSUME NEW b \in U!Binary, NEW mode \in {"run", "write", "read-only"}
    PROVE  /\ [b EXCEPT !.mode = mode] \in U!Binary
           /\ IsOffered(b) => IsOffered([b EXCEPT !.mode = mode])
  BY DEF U!Binary, IsOffered

LEMMA Builds ==
    /\ \A v \in Version, good \in BOOLEAN : U!Build(v, good) \in U!Binary
    /\ U!Cut \in U!Binary
    /\ U!NoUpdate \in Command /\ U!NoUpdate.pc = "idle"
  BY OperationsAssumption DEF U!UpdateAssumption, U!Build, U!Cut, U!Binary, U!NoUpdate, Command

LEMMA PublishStep ==
    ASSUME UpdateInv, NEW v \in Version, NEW archive, U!Publish(v, archive)
    PROVE  UpdateInv'
  <1>1. UpdateTypes' BY DEF U!Publish, UpdateInv, UpdateTypes
  <1>2. UpdateIsOrderly' BY DEF U!Publish, UpdateInv, UpdateIsOrderly, IsOffered
  <1>3. UpdateKeepsABinary'
    BY DEF U!Publish, UpdateInv, UpdateKeepsABinary, U!UpdateKeepsABinary
  <1> QED BY <1>1, <1>2, <1>3 DEF UpdateInv

LEMMA BeginStep ==
    ASSUME UpdateInv, NEW channel, U!BeginUpdate(channel)
    PROVE  UpdateInv'
  <1>1. PICK r \in published :
            /\ U!Newer(r.version, binary.version)
            /\ update' = [pc |-> "write", data |-> U!Build(r.version, r.archive = "good"), copied |-> FALSE]
    BY DEF U!BeginUpdate, U!FetchNewestRelease
  <1> DEFINE b == U!Build(r.version, r.archive = "good")
  <1>2. b \in U!Binary BY Builds DEF UpdateInv, UpdateTypes
  <1>3. b.version = r.version /\ (b.starts <=> r.archive = "good") BY DEF U!Build
  <1>4. UNCHANGED <<published, binary, tmp, bak>> /\ previous' = binary /\ flawed' = FALSE
    BY DEF U!BeginUpdate
  <1>5. IsOffered(b)' BY <1>1, <1>3, <1>4 DEF IsOffered
  <1> HIDE DEF b
  <1>6. update' \in Command BY <1>1, <1>2 DEF Command, b
  <1>7. UpdateTypes' BY <1>4, <1>6 DEF UpdateInv, UpdateTypes
  <1>8. update'.pc = "write" /\ update'.data = b /\ ~update'.copied BY <1>1 DEF b
  <1>9. UpdateIsOrderly' BY <1>2, <1>4, <1>5, <1>8 DEF UpdateIsOrderly
  <1>10. UpdateKeepsABinary' BY <1>8 DEF UpdateKeepsABinary, U!UpdateKeepsABinary
  <1> QED BY <1>7, <1>9, <1>10 DEF UpdateInv

\* What EXCEPT leaves of a command.
LEMMA CommandGoes ==
    ASSUME NEW u \in Command, NEW place \in {"idle", "write", "backup", "rename", "verify"},
           NEW copied \in BOOLEAN
    PROVE  /\ [u EXCEPT !.pc = place] \in Command /\ [u EXCEPT !.pc = place].pc = place
           /\ [u EXCEPT !.pc = place].copied = u.copied /\ [u EXCEPT !.pc = place].data = u.data
           /\ [u EXCEPT !.pc = place, !.copied = copied] \in Command
           /\ [u EXCEPT !.pc = place, !.copied = copied].pc = place
           /\ [u EXCEPT !.pc = place, !.copied = copied].copied = copied
  BY DEF Command

LEMMA WriteStep == ASSUME UpdateInv, U!WriteTemp PROVE UpdateInv'
  <1> USE DEF UpdateInv
  <1>1. update.pc = "write" /\ update \in Command /\ update.data \in U!Binary /\ IsOffered(update.data)
    BY DEF U!WriteTemp, UpdateTypes, UpdateIsOrderly
  <1>2. binary = previous /\ ~update.copied BY <1>1 DEF UpdateIsOrderly
  <1>3. UNCHANGED <<published, binary, bak, updates, previous, flawed>> BY DEF U!WriteTemp
  <1>4. \/ tmp' \in U!Binary \cup {NoFile} /\ update' = U!NoUpdate
        \/ tmp' = [update.data EXCEPT !.mode = "read-only"] /\ update' = [update EXCEPT !.pc = "backup"]
    <2> QED BY Builds DEF U!WriteTemp, UpdateTypes
  <1>5. CASE tmp' \in U!Binary \cup {NoFile} /\ update' = U!NoUpdate
    BY <1>2, <1>3, <1>5, Builds DEF UpdateTypes, UpdateIsOrderly, UpdateKeepsABinary, U!UpdateKeepsABinary
  <1>6. CASE tmp' = [update.data EXCEPT !.mode = "read-only"] /\ update' = [update EXCEPT !.pc = "backup"]
    <2>1. tmp' \in U!Binary /\ IsOffered(tmp') BY <1>1, <1>6, ModeOnly
    <2>2. IsOffered(tmp)' BY <2>1, <1>3 DEF IsOffered
    <2>3. update' \in Command /\ update'.pc = "backup" /\ update'.copied = update.copied
      BY <1>1, <1>6, CommandGoes
    <2> QED BY <1>2, <1>3, <2>1, <2>2, <2>3
            DEF UpdateTypes, UpdateIsOrderly, UpdateKeepsABinary, U!UpdateKeepsABinary
  <1> QED BY <1>4, <1>5, <1>6

LEMMA BackupStep == ASSUME UpdateInv, U!Backup PROVE UpdateInv'
  <1> USE DEF UpdateInv
  <1>1. update.pc = "backup" /\ update \in Command /\ tmp \in U!Binary /\ IsOffered(tmp)
    BY DEF U!Backup, UpdateTypes, UpdateIsOrderly
  <1>2. binary = previous /\ ~update.copied BY <1>1 DEF UpdateIsOrderly
  <1>3. UNCHANGED <<published, binary, tmp, updates, previous, flawed>> BY DEF U!Backup
  <1>4. IsOffered(tmp)' BY <1>1, <1>3 DEF IsOffered
  <1>5. update' \in Command /\ update'.pc = "rename" /\ (update'.copied => bak' = U!copyFile(binary))
    <2>1. CASE bak' = U!copyFile(binary) /\ update' = [update EXCEPT !.pc = "rename", !.copied = TRUE]
      BY <1>1, <2>1, CommandGoes
    <2>2. CASE update' = [update EXCEPT !.pc = "rename"]
      BY <1>1, <1>2, <2>2, CommandGoes
    <2> QED BY <2>1, <2>2 DEF U!Backup
  <1>6. bak' \in U!Binary \cup {NoFile} BY Builds, ModeOnly DEF U!Backup, U!copyFile, UpdateTypes
  <1> QED BY <1>1, <1>2, <1>3, <1>4, <1>5, <1>6
          DEF UpdateTypes, UpdateIsOrderly, UpdateKeepsABinary, U!UpdateKeepsABinary

LEMMA RenameStep == ASSUME UpdateInv, U!Rename PROVE UpdateInv'
  <1> USE DEF UpdateInv
  <1>1. update.pc = "rename" /\ update \in Command /\ tmp \in U!Binary /\ IsOffered(tmp)
    BY DEF U!Rename, UpdateTypes, UpdateIsOrderly
  <1>2. binary = previous /\ (update.copied => bak = U!copyFile(previous)) BY <1>1 DEF UpdateIsOrderly
  <1>3. UNCHANGED <<published, bak, updates, previous, flawed>> /\ tmp' = NoFile BY DEF U!Rename
  <1>4. CASE binary' = [tmp EXCEPT !.mode = "run"] /\ update' = [update EXCEPT !.pc = "verify"]
    <2>1. binary' \in U!Binary /\ IsOffered(binary') /\ binary'.mode = "run"
      BY <1>1, <1>4, ModeOnly DEF U!Binary
    <2>2. IsOffered(binary)' BY <2>1, <1>3 DEF IsOffered
    <2>3. update' \in Command /\ update'.pc = "verify" /\ update'.copied = update.copied
      BY <1>1, <1>4, CommandGoes
    <2> QED BY <1>2, <1>3, <2>1, <2>2, <2>3
            DEF UpdateTypes, UpdateIsOrderly, UpdateKeepsABinary, U!UpdateKeepsABinary
  <1>5. CASE UNCHANGED binary /\ update' = U!NoUpdate
    BY <1>2, <1>3, <1>5, Builds DEF UpdateTypes, UpdateIsOrderly, UpdateKeepsABinary, U!UpdateKeepsABinary
  <1> QED BY <1>4, <1>5 DEF U!Rename

LEMMA VerifyStep == ASSUME UpdateInv, U!VerifyBinary PROVE UpdateInv'
  <1> USE DEF UpdateInv
  <1>1. /\ update.pc = "verify" /\ IsOffered(binary) /\ binary.mode = "run"
        /\ update.copied => bak = U!copyFile(previous)
    BY DEF U!VerifyBinary, UpdateIsOrderly
  <1>2. UNCHANGED <<published, tmp, updates, previous>> /\ update' = U!NoUpdate
    BY DEF U!VerifyBinary
  <1>3. flawed' = (~binary.starts /\ ~update.copied) BY DEF U!VerifyBinary
  <1>4. bak' \in U!Binary \cup {NoFile} /\ binary' \in U!Binary
    BY DEF U!VerifyBinary, U!Restores, UpdateTypes
  <1>5. UpdateTypes' BY <1>2, <1>3, <1>4, Builds DEF UpdateTypes
  <1>6. UpdateIsOrderly' BY <1>2, Builds DEF UpdateIsOrderly
  <1>7. CASE binary.starts
    <2>1. binary' = binary BY <1>7 DEF U!VerifyBinary, U!Restores
    <2> QED BY <1>1, <1>2, <1>5, <1>6, <1>7, <2>1
            DEF IsOffered, UpdateKeepsABinary, U!UpdateKeepsABinary
  <1>8. CASE ~binary.starts /\ update.copied
    <2>1. bak # NoFile
      BY <1>1, <1>8, ModeOnly, OperationsAssumption DEF UpdateTypes, U!copyFile, U!UpdateAssumption
    <2>2. binary' = U!copyFile(previous) BY <1>1, <1>8, <2>1 DEF U!VerifyBinary, U!Restores
    <2>3. \E r \in published : U!Newer(r.version, previous.version) /\ r.archive # "good"
      BY <1>1, <1>8 DEF IsOffered
    <2> QED BY <1>2, <1>5, <1>6, <2>2, <2>3 DEF U!copyFile, UpdateKeepsABinary, U!UpdateKeepsABinary
  <1>9. CASE ~binary.starts /\ ~update.copied
    BY <1>3, <1>5, <1>6, <1>9 DEF UpdateKeepsABinary, U!UpdateKeepsABinary
  <1> QED BY <1>7, <1>8, <1>9

LEMMA KilledStep == ASSUME UpdateInv, U!Killed PROVE UpdateInv'
  <1> USE DEF UpdateInv
  <1>1. UNCHANGED <<published, binary, tmp, updates, previous>> /\ update' = U!NoUpdate
    BY DEF U!Killed
  <1>2. update.pc # "idle" /\ flawed' = (update.pc = "verify") BY DEF U!Killed
  <1>3. bak' \in U!Binary \cup {NoFile} BY Builds DEF U!Killed, UpdateTypes
  <1>4. update.pc # "verify" => binary = previous
    BY <1>2 DEF UpdateTypes, UpdateIsOrderly, Command
  <1> QED BY <1>1, <1>2, <1>3, <1>4, Builds
          DEF UpdateTypes, UpdateIsOrderly, UpdateKeepsABinary, U!UpdateKeepsABinary

LEMMA UpdateStep == UpdateInv /\ [U!Next]_(U!vars) => UpdateInv'
  <1> SUFFICES ASSUME UpdateInv, [U!Next]_(U!vars) PROVE UpdateInv' OBVIOUS
  <1>1. CASE UNCHANGED U!vars
    BY <1>1 DEF U!vars, UpdateInv, UpdateTypes, UpdateIsOrderly, IsOffered, UpdateKeepsABinary,
                U!UpdateKeepsABinary
  <1> QED BY <1>1, PublishStep, BeginStep, WriteStep, BackupStep, RenameStep, VerifyStep, KilledStep
          DEF U!Next

\* Whatever releases are published and wherever the command is killed, it ends
\* with the binary it began with, or with a verified, newer one that runs, or,
\* after a release that does not start, with a copy of the old one, which cannot
\* be executed.
THEOREM UpdateCorrect == U!Spec => []UpdateKeepsABinary
  <1>1. U!Init => UpdateInv
    BY OperationsAssumption, Builds DEF U!Init, U!UpdateAssumption, UpdateInv, UpdateTypes, UpdateIsOrderly,
       UpdateKeepsABinary, U!UpdateKeepsABinary
  <1>2. UpdateInv => UpdateKeepsABinary BY DEF UpdateInv
  <1> QED BY <1>1, <1>2, UpdateStep, PTL DEF U!Spec

-----------------------------------------------------------------------------
(* Artifacts.                                                              *)

Maybe == A!Content \cup {None}

ArtifactFile == [header : Maybe, payload : Maybe, whole : BOOLEAN, overlapped : BOOLEAN]

ArtifactTypes ==
    /\ tree \in A!Content /\ indexing \in Maybe
    /\ source \in A!Database
    /\ export \in [pc : {"idle", "read"}, payload : Maybe]
    /\ artifact \in ArtifactFile
    /\ overlap \in BOOLEAN /\ overlooked \in BOOLEAN

\* An identity is of the graph beside it, or there is none, unless a blind run
\* has committed since; and what is written
\* of a snapshot is still true of it unless a run came between.
IsOfItsGraph(identity, graph) == identity # None => identity = graph
IsOfItsPayload(file) == ~file.overlapped => IsOfItsGraph(file.header, file.payload)

ExportIsExact ==
    /\ ~overlooked => IsOfItsGraph(source.identity, source.graph)
    /\ export.pc = "read" /\ ~overlap =>
          ~overlooked /\ source.graph = export.payload
    /\ IsOfItsPayload(artifact)

ExporterInv == ArtifactTypes /\ ExportIsExact

\* The importer has a file that was the artifact once, its verdict is on that
\* file and the captured checkout, and no journal is left once it has been swept.
Importing == [pc : {"idle", "stage", "install", "rename", "copy"}, seen : Maybe, stale : BOOLEAN,
              file : ArtifactFile, staged : A!Database]

\* What it stages, if it gives it an identity, is of the captured tree.
CoherentIn(i) ==
    i.pc \in {"install", "rename", "copy"} /\ i.staged.identity # None =>
        \/ i.staged.graph = i.seen /\ i.seen.dirt = 0
        \/ i.file.overlapped

StagedInv ==
    /\ import \in Importing
    /\ IsOfItsPayload(import.file)
    /\ CoherentIn(import)
    /\ import.pc = "stage" => import.stale = A!Stale(import.file.header, import.seen)

JournalInv ==
    /\ import.pc \in {"rename", "copy"} => imageJournal = None
    /\ ImageHasItsOwnJournal

ArtifactsInv == ExporterInv /\ StagedInv /\ JournalInv

\* The exporter's side.
LEMMA ExporterStep == ExporterInv /\ [A!Next]_(A!vars) => ExporterInv'
  <1> SUFFICES ASSUME ExporterInv, [A!Next]_(A!vars) PROVE ExporterInv' OBVIOUS
  <1> USE OperationsAssumption DEF A!ArtifactsAssumption, ExporterInv, ArtifactTypes, ExportIsExact,
          IsOfItsGraph, IsOfItsPayload, Maybe, ArtifactFile, A!Database, A!exporter, A!importer
  <1>1. ASSUME A!Edit PROVE ExporterInv' BY <1>1 DEF A!Edit
  <1>2. ASSUME NEW blind \in BOOLEAN, A!BeginRun(blind) PROVE ExporterInv' BY <1>2 DEF A!BeginRun
  <1>3. ASSUME A!EndRun PROVE ExporterInv'
    <2>1. overlap' = (overlap \/ export.pc = "read") /\ overlap' \in BOOLEAN BY <1>3 DEF A!EndRun
    <2>2. UNCHANGED <<tree, export, artifact>> BY <1>3 DEF A!EndRun
    <2>3. indexing' \in Maybe /\ source' \in A!Database /\ overlooked' \in BOOLEAN
      BY <1>3 DEF A!EndRun
    <2>4. (~overlooked => IsOfItsGraph(source.identity, source.graph))'
      BY <1>3 DEF A!EndRun
    <2>5. export'.pc = "read" => overlap' BY <2>1, <2>2
    <2> QED BY <2>1, <2>2, <2>3, <2>4, <2>5
  <1>4. ASSUME A!SnapshotTo PROVE ExporterInv' BY <1>4 DEF A!SnapshotTo
  <1>5. ASSUME A!writeArtifact PROVE ExporterInv'
    BY <1>5 DEF A!writeArtifact, A!Header, A!NoExport, A!NoDatabase
  <1>6. ASSUME A!ExportFails PROVE ExporterInv' BY <1>6 DEF A!ExportFails, A!NoExport, A!NoDatabase
  <1>7. ASSUME A!Damaged PROVE ExporterInv' BY <1>7 DEF A!Damaged
  <1>10. ASSUME A!RunStops PROVE ExporterInv'
    <2>1. CASE UNCHANGED <<source, overlooked>> BY <1>10, <2>1 DEF A!RunStops
    <2>2. CASE source' = [source EXCEPT !.identity = None] /\ overlooked' = FALSE
      BY <1>10, <2>2 DEF A!RunStops
    <2> QED BY <1>10, <2>1, <2>2 DEF A!RunStops
  <1>8. ASSUME UNCHANGED <<A!exporter, artifact>> PROVE ExporterInv' BY <1>8
  <1>9. A!ImporterNext => A!Damaged \/ UNCHANGED <<A!exporter, artifact>>
    BY DEF A!ImporterNext, A!Stage, A!RemoveJournals, A!Rename, A!copyFile, A!Killed, A!BeginImport
  <1> QED BY <1>1, <1>2, <1>3, <1>4, <1>5, <1>6, <1>7, <1>8, <1>9, <1>10 DEF A!Next, A!ExporterNext, A!vars

\* A file that is not stale for a clean checkout is of that checkout.
LEMMA NotStale ==
    ASSUME NEW header \in Maybe, NEW seen \in Maybe, ~A!Stale(header, seen)
    PROVE  header = seen /\ seen.dirt = 0
  BY DEF Maybe, A!Stale, A!Content

\* The import goes to another place, with or without what it has staged.
LEMMA ImportGoes ==
    ASSUME NEW i \in Importing, NEW place \in {"idle", "stage", "install", "rename", "copy"}
    PROVE  \E n \in Importing :
               /\ n = [i EXCEPT !.pc = place]
               /\ n.pc = place /\ n.file = i.file /\ n.seen = i.seen /\ n.staged = i.staged
  <1> DEFINE n == [i EXCEPT !.pc = place]
  <1>1. n \in Importing /\ n.pc = place BY DEF Importing
  <1>2. n.file = i.file /\ n.seen = i.seen /\ n.staged = i.staged BY DEF Importing
  <1> QED BY <1>1, <1>2

LEMMA ImportStages ==
    ASSUME NEW i \in Importing, NEW staged \in A!Database
    PROVE  \E n \in Importing :
               /\ n = [i EXCEPT !.pc = "install", !.staged = staged]
               /\ n.pc = "install" /\ n.file = i.file /\ n.seen = i.seen /\ n.staged = staged
  <1> DEFINE n == [i EXCEPT !.pc = "install", !.staged = staged]
  <1>1. n \in Importing /\ n.pc = "install" BY DEF Importing
  <1>2. n.file = i.file /\ n.seen = i.seen BY DEF Importing
  <1>3. n.staged = staged BY DEF Importing
  <1> QED BY <1>1, <1>2, <1>3

LEMMA NoImportOK ==
    /\ A!NoImport \in Importing /\ A!NoImport.pc = "idle" /\ IsOfItsPayload(A!NoImport.file)
  BY DEF A!NoImport, A!NoArtifact, A!NoDatabase, Importing, ArtifactFile, Maybe, A!Database,
         IsOfItsPayload, IsOfItsGraph

LEMMA StageStep ==
    ASSUME StagedInv, A!Stage
    PROVE  StagedInv'
  <1>1. CASE import' = A!NoImport BY <1>1, NoImportOK DEF StagedInv, CoherentIn
  <1>2. CASE A!Verified /\ import' = [import EXCEPT !.pc = "install", !.staged = A!Staged]
    <2> DEFINE file == import.file
    <2>1. import \in Importing /\ file \in ArtifactFile /\ import.seen \in Maybe
      BY DEF StagedInv, Importing
    <2>2. A!Staged = [graph |-> file.payload,
                      identity |-> IF import.stale THEN None ELSE file.header]
      BY <1>2 DEF A!Verified, A!Staged
    <2>3. A!Staged \in A!Database
      BY <2>1, <2>2 DEF ArtifactFile, A!Database, Maybe
    <2>0. PICK n \in Importing :
              /\ n = [import EXCEPT !.pc = "install", !.staged = A!Staged]
              /\ n.pc = "install" /\ n.file = import.file /\ n.seen = import.seen /\ n.staged = A!Staged
      BY <2>1, <2>3, ImportStages
    <2>4. import' \in Importing BY <1>2, <2>0
    <2>5. /\ import'.pc = "install" /\ import'.file = file
          /\ import'.seen = import.seen /\ import'.staged = A!Staged
      BY <1>2, <2>0
    <2>6. IsOfItsPayload(import'.file) BY <2>5 DEF StagedInv
    <2>7. ASSUME A!Staged.identity # None, ~file.overlapped
          PROVE  A!Staged.graph = import.seen /\ import.seen.dirt = 0
      <3>1. ~import.stale /\ file.header # None BY <2>2, <2>7
      <3>2. ~A!Stale(file.header, import.seen) BY <3>1 DEF StagedInv, A!Stage
      <3>3. file.header = import.seen /\ import.seen.dirt = 0
        BY <2>1, <3>2, NotStale DEF ArtifactFile
      <3>4. file.header = file.payload
        BY <2>7, <3>1 DEF StagedInv, IsOfItsPayload, IsOfItsGraph
      <3> QED BY <2>2, <3>3, <3>4
    <2>8. CoherentIn(import') BY <2>5, <2>7 DEF CoherentIn
    <2> QED BY <2>4, <2>5, <2>6, <2>8 DEF StagedInv
  <1> QED BY <1>1, <1>2 DEF A!Stage

LEMMA BeginImportStep ==
    ASSUME StagedInv, ExporterInv, NEW allowStale, NEW force, NEW seen \in Maybe,
           A!BeginImport(allowStale, force, seen)
    PROVE  StagedInv'
  <1>1. import' = [pc |-> "stage", seen |-> seen, stale |-> A!Stale(artifact.header, seen),
                   file |-> artifact, staged |-> A!NoDatabase]
    BY DEF A!BeginImport, A!NoImport
  <1>2. artifact \in ArtifactFile /\ IsOfItsPayload(artifact)
    BY DEF ExporterInv, ArtifactTypes, ExportIsExact
  <1>3. A!NoDatabase \in A!Database BY DEF A!NoDatabase, A!Database
  <1>4. A!Stale(artifact.header, seen) \in BOOLEAN BY DEF A!Stale
  <1> QED BY <1>1, <1>2, <1>3, <1>4 DEF StagedInv, Importing, CoherentIn

LEMMA InstallStep ==
    ASSUME StagedInv, A!RemoveJournals \/ A!Rename \/ A!copyFile \/ A!Killed
    PROVE  StagedInv'
  <1>1. CASE import' = A!NoImport BY <1>1, NoImportOK DEF StagedInv, CoherentIn
  <1>2. ASSUME NEW place \in {"rename", "copy"}, import' = [import EXCEPT !.pc = place],
               import.pc \in {"install", "rename"}
        PROVE  StagedInv'
    <2>1. /\ import \in Importing /\ CoherentIn(import)
          /\ place \in {"idle", "stage", "install", "rename", "copy"}
      BY <1>2 DEF StagedInv
    <2>2. PICK n \in Importing :
              /\ n = [import EXCEPT !.pc = place]
              /\ n.pc = place /\ n.file = import.file /\ n.seen = import.seen /\ n.staged = import.staged
      BY <2>1, ImportGoes
    <2>3. import' = n BY <1>2, <2>2
    <2>4. CoherentIn(n) BY <1>2, <2>1, <2>2 DEF CoherentIn
    <2> QED BY <1>2, <2>2, <2>3, <2>4 DEF StagedInv
  <1> QED BY <1>1, <1>2 DEF A!RemoveJournals, A!Rename, A!copyFile, A!Killed

LEMMA StagedStep == ExporterInv /\ StagedInv /\ [A!Next]_(A!vars) => StagedInv'
  <1> SUFFICES ASSUME ExporterInv, StagedInv, [A!Next]_(A!vars) PROVE StagedInv' OBVIOUS
  <1>1. ASSUME UNCHANGED import PROVE StagedInv' BY <1>1 DEF StagedInv
  <1>2. A!ExporterNext \/ A!Damaged \/ UNCHANGED A!vars => UNCHANGED import
    BY DEF A!ExporterNext, A!Edit, A!BeginRun, A!EndRun, A!RunStops, A!SnapshotTo, A!writeArtifact, A!ExportFails,
           A!Damaged, A!importer, A!vars
  <1> QED BY <1>1, <1>2, StageStep, BeginImportStep, InstallStep DEF A!Next, A!ImporterNext, Maybe

\* RemoveJournals comes before the rename, and nothing writes a journal after it.
LEMMA JournalStep == StagedInv /\ JournalInv /\ [A!Next]_(A!vars) => JournalInv'
  <1> SUFFICES ASSUME StagedInv, JournalInv, [A!Next]_(A!vars) PROVE JournalInv' OBVIOUS
  <1> USE DEF JournalInv, ImageHasItsOwnJournal, A!ImageHasItsOwnJournal
  <1>1. ASSUME A!ExporterNext \/ A!Damaged \/ UNCHANGED A!vars PROVE JournalInv'
    BY <1>1 DEF A!ExporterNext, A!Edit, A!BeginRun, A!EndRun, A!RunStops, A!SnapshotTo, A!writeArtifact, A!ExportFails,
                A!Damaged, A!importer, A!vars
  <1>2. ASSUME A!Stage PROVE JournalInv'
    <2>1. import'.pc \in {"idle", "install"} BY <1>2, NoImportOK DEF A!Stage, StagedInv, Importing
    <2> QED BY <1>2, <2>1 DEF A!Stage
  <1>3. ASSUME A!RemoveJournals PROVE JournalInv' BY <1>3 DEF A!RemoveJournals, A!Swept
  <1>4. ASSUME A!Rename \/ A!copyFile \/ A!Killed PROVE JournalInv'
    BY <1>4, NoImportOK DEF A!Rename, A!copyFile, A!Killed
  <1>5. ASSUME NEW allowStale, NEW force, NEW seen, A!BeginImport(allowStale, force, seen)
        PROVE  JournalInv'
    BY <1>5 DEF A!BeginImport, A!NoImport
  <1> QED BY <1>1, <1>2, <1>3, <1>4, <1>5 DEF A!Next, A!ImporterNext

LEMMA ArtifactsHold == A!Spec => []ArtifactsInv
  <1>1. A!Init => ArtifactsInv
    <2> SUFFICES ASSUME A!Init PROVE ArtifactsInv OBVIOUS
    <2>1. A!Clean \in A!Content
      BY OperationsAssumption DEF A!ArtifactsAssumption, A!Clean, A!Content
    <2>2. A!NoDatabase \in A!Database /\ A!NoArtifact \in ArtifactFile /\ IsOfItsPayload(A!NoArtifact)
      BY DEF A!NoDatabase, A!Database, A!NoArtifact, ArtifactFile, Maybe, IsOfItsPayload, IsOfItsGraph
    <2>3. ArtifactTypes
      BY <2>1, <2>2 DEF A!Init, ArtifactTypes, A!NoExport, Maybe
    <2>4. ExportIsExact
      BY <2>2 DEF A!Init, ExportIsExact, IsOfItsGraph, A!NoExport, A!NoDatabase
    <2>5. StagedInv BY NoImportOK DEF A!Init, StagedInv, CoherentIn
    <2>6. JournalInv BY NoImportOK DEF A!Init, JournalInv, ImageHasItsOwnJournal, A!ImageHasItsOwnJournal
    <2> QED BY <2>3, <2>4, <2>5, <2>6 DEF ArtifactsInv, ExporterInv
  <1>2. ArtifactsInv /\ [A!Next]_(A!vars) => ArtifactsInv'
    BY ExporterStep, StagedStep, JournalStep DEF ArtifactsInv
  <1> QED BY <1>1, <1>2, PTL DEF A!Spec

\* An import that is reported as coherent has a graph of exactly the tree that
\* was captured, whatever was edited, indexed, exported or damaged meanwhile.
THEOREM ImportCorrect == A!Spec => []CoherentImportIsExact
  <1>1. ArtifactsInv => CoherentImportIsExact
    BY DEF ArtifactsInv, StagedInv, CoherentIn, CoherentImportIsExact, A!CoherentImportIsExact
  <1> QED BY <1>1, ArtifactsHold, PTL

\* The image in place never meets the journal of another, wherever the import is
\* killed.
THEOREM JournalCorrect == A!Spec => []ImageHasItsOwnJournal
  <1>1. ArtifactsInv => ImageHasItsOwnJournal BY DEF ArtifactsInv, JournalInv
  <1> QED BY <1>1, ArtifactsHold, PTL

-----------------------------------------------------------------------------
(* The agent.                                                              *)

Message == [role : {"user", "assistant"}, ids : SUBSET (Nat \X Nat)]

FieldNames == {"pc", "turn", "attempt", "messages", "entities", "stop", "error", "billed"}
Fields(it) == it = [f \in FieldNames |-> it[f]]

\* The conversation is one that the API takes, at any point of an iteration.
Talks(it) ==
    it.pc # "over" =>
        /\ Fields(it) /\ it.turn \in Nat
        /\ it.messages \in Seq(Message) /\ it.messages # <<>>
        /\ L!Accepted(it.messages)

AgentInv ==
    /\ iters \in 1..MaxIters
    /\ loop = [i \in L!Iter |-> loop[i]]
    /\ \A i \in L!Iter : Talks(loop[i])

\* A reply whose calls have all their results, and those, can be added.
LEMMA AcceptedGrows ==
    ASSUME NEW m \in Seq(Message), m # <<>>, L!Accepted(m), NEW calls \in SUBSET (Nat \X Nat)
    PROVE  /\ L!Exchanged(m, calls, calls) \in Seq(Message)
           /\ L!Exchanged(m, calls, calls) # <<>>
           /\ L!Accepted(L!Exchanged(m, calls, calls))
  <1> DEFINE said == Append(m, [role |-> "assistant", ids |-> calls])
  <1> DEFINE both == Append(said, [role |-> "user", ids |-> calls])
  <1>1. Len(m) \in Nat \ {0} OBVIOUS
  <1>2. [role |-> "assistant", ids |-> calls] \in Message /\ [role |-> "user", ids |-> calls] \in Message
    BY DEF Message
  <1>3. /\ said \in Seq(Message) /\ Len(said) = Len(m) + 1
        /\ \A k \in 1..Len(m) : said[k] = m[k]
        /\ said[Len(m) + 1] = [role |-> "assistant", ids |-> calls]
    BY <1>1, <1>2
  <1> HIDE DEF said
  <1>4. /\ both \in Seq(Message) /\ Len(both) = Len(m) + 2
        /\ \A k \in 1..Len(m) : both[k] = m[k]
        /\ both[Len(m) + 1] = [role |-> "assistant", ids |-> calls]
        /\ both[Len(m) + 2] = [role |-> "user", ids |-> calls]
    BY <1>1, <1>2, <1>3
  <1> HIDE DEF both
  <1>5. CASE calls = {}
    <2>1. L!Accepted(said) BY <1>1, <1>3, <1>5 DEF L!Accepted
    <2> QED BY <1>1, <1>3, <1>5, <2>1 DEF L!Exchanged, said
  <1>6. CASE calls # {}
    <2>2. both[1].role = "user" BY <1>1, <1>4 DEF L!Accepted
    <2>3. ASSUME NEW k \in 1..Len(both), both[k].role = "assistant", both[k].ids # {}
          PROVE  k < Len(both) /\ both[k + 1] = [role |-> "user", ids |-> both[k].ids]
      <3>1. CASE k \in 1..Len(m)
        <4>1. k < Len(m) /\ m[k + 1] = [role |-> "user", ids |-> m[k].ids]
          BY <1>4, <2>3, <3>1 DEF L!Accepted
        <4>3. k \in 1..Len(m) /\ k + 1 \in 1..Len(m) BY <1>1, <3>1, <4>1
        <4>2. both[k] = m[k] /\ both[k + 1] = m[k + 1] BY <1>4, <4>3
        <4> QED BY <1>1, <1>4, <3>1, <4>1, <4>2
      <3>2. CASE k = Len(m) + 1 BY <1>1, <1>4, <3>2
      <3>3. CASE k = Len(m) + 2 BY <1>4, <2>3, <3>3
      <3> QED BY <1>1, <1>4, <3>1, <3>2, <3>3
    <2>4. ASSUME NEW k \in 2..Len(both), both[k].role = "user"
          PROVE  both[k - 1].role = "assistant"
      <3>1. CASE k \in 2..Len(m)
        <4>1. both[k] = m[k] /\ both[k - 1] = m[k - 1] BY <1>1, <1>4, <3>1
        <4> QED BY <1>1, <2>4, <3>1, <4>1 DEF L!Accepted
      <3>2. CASE k = Len(m) + 1 BY <1>4, <2>4, <3>2
      <3>3. CASE k = Len(m) + 2 BY <1>1, <1>4, <3>3
      <3> QED BY <1>1, <1>4, <3>1, <3>2, <3>3
    <2>1. L!Accepted(both) BY <2>2, <2>3, <2>4 DEF L!Accepted
    <2> QED BY <1>1, <1>4, <1>6, <2>1 DEF L!Exchanged, said, both
  <1> QED BY <1>5, <1>6

\* No finalize was accepted: the results are those of all calls.
LEMMA ResultsOfAll ==
    ASSUME NEW reply, DOMAIN reply.blocks \subseteq Nat, NEW turn \in Nat,
           \A k \in DOMAIN reply.blocks : ~L!handleFinalize(reply.blocks[k])
    PROVE  /\ L!CallIds(reply, turn) \in SUBSET (Nat \X Nat)
           /\ L!toolResults(reply, turn) = L!CallIds(reply, turn)
  BY DEF L!CallIds, L!toolResults

LEMMA AnsweredTalks ==
    ASSUME NEW it, it.pc # "over", Talks(it), NEW reply, DOMAIN reply.blocks \subseteq Nat
    PROVE  Talks(L!Answered(it, reply))
  <1> DEFINE accepted == {k \in DOMAIN reply.blocks : L!handleFinalize(reply.blocks[k])}
             results == L!toolResults(reply, it.turn)
             calls == L!CallIds(reply, it.turn)
             said == [it EXCEPT !.attempt = 0, !.billed = @ + 1,
                                !.messages = L!Exchanged(@, calls, results)]
  <1>0. Fields(it) BY DEF Talks
  <1>1. /\ Fields(said) /\ said.turn = it.turn
        /\ said.messages = L!Exchanged(it.messages, calls, results)
    BY <1>0 DEF Fields, FieldNames
  <1> HIDE DEF said
  <1>2. CASE accepted # {}
    <2>1. L!Answered(it, reply) = [said EXCEPT !.pc = "over", !.stop = "finalized",
                                     !.entities = L!Cut(reply.blocks[L!Max(accepted)].entities)]
      BY <1>2 DEF L!Answered, said
    <2>2. L!Answered(it, reply).pc = "over" BY <1>1, <2>1 DEF Fields, FieldNames
    <2> QED BY <2>2 DEF Talks
  <1>3. CASE accepted = {} /\ reply.stop = "end_turn" /\ results = {}
    <2>1. L!Answered(it, reply) = [said EXCEPT !.pc = "over", !.stop = "no_finalize"]
      BY <1>3 DEF L!Answered, said
    <2>2. L!Answered(it, reply).pc = "over" BY <1>1, <2>1 DEF Fields, FieldNames
    <2> QED BY <2>2 DEF Talks
  <1>4. CASE accepted = {} /\ ~(reply.stop = "end_turn" /\ results = {})
    <2>1. /\ calls \in SUBSET (Nat \X Nat) /\ results = calls
      BY <1>4, ResultsOfAll DEF Talks
    <2>2. said.messages = L!Exchanged(it.messages, calls, calls) BY <1>1, <2>1
    <2>3. /\ said.messages \in Seq(Message) /\ said.messages # <<>>
          /\ L!Accepted(said.messages)
      BY <2>1, <2>2, AcceptedGrows DEF Talks
    <2>4. L!Answered(it, reply) = IF it.turn = MaxTurns
                                  THEN [said EXCEPT !.pc = "over", !.stop = "max_turns"]
                                  ELSE [said EXCEPT !.turn = @ + 1]
      BY <1>4 DEF L!Answered, said
    <2>5. CASE it.turn = MaxTurns
      <3>1. L!Answered(it, reply).pc = "over" BY <1>1, <2>4, <2>5 DEF Fields, FieldNames
      <3> QED BY <3>1 DEF Talks
    <2>6. CASE it.turn # MaxTurns
      <3> DEFINE next == [said EXCEPT !.turn = @ + 1]
      <3>1. Fields(next) /\ next.turn = it.turn + 1 /\ next.messages = said.messages
        BY <1>1 DEF Fields, FieldNames
      <3>2. next.turn \in Nat BY <3>1 DEF Talks
      <3>3. L!Answered(it, reply) = next BY <2>4, <2>6
      <3> HIDE DEF next
      <3> QED BY <2>3, <3>1, <3>2, <3>3 DEF Talks
    <2> QED BY <2>5, <2>6
  <1> QED BY <1>2, <1>3, <1>4

\* One iteration's record changes and stays one that talks, or they all stay.
LEMMA LoopStep ==
    ASSUME AgentInv, UNCHANGED iters, NEW i \in L!Iter, NEW it, Talks(it),
           loop' = [loop EXCEPT ![i] = it]
    PROVE  AgentInv'
  <1>1. L!Iter' = L!Iter BY DEF L!Iter
  <1>2. loop' = [j \in L!Iter |-> IF j = i THEN it ELSE loop[j]] BY DEF AgentInv
  <1> QED BY <1>1, <1>2 DEF AgentInv

\* What is asked again, or answered without a turn, is the same conversation.
LEMMA SameTalk ==
    ASSUME NEW it, it.pc # "over", Talks(it), NEW next, Fields(next), next.turn = it.turn,
           next.messages = it.messages
    PROVE  Talks(next)
  BY DEF Talks

LEMMA AgentStep == AgentInv /\ [L!Next]_(L!agentVars) => AgentInv'
  <1> SUFFICES ASSUME AgentInv, [L!Next]_(L!agentVars) PROVE AgentInv' OBVIOUS
  <1> USE DEF Fields, FieldNames
  <1>1. ASSUME NEW i \in L!Iter, L!runOnce(i) PROVE AgentInv'
    <2>1. PICK first \in {"rewriting", "asking"} : loop' = [loop EXCEPT ![i].pc = first]
      BY <1>1 DEF L!runOnce
    <2>2. loop[i].pc # "over" /\ Talks(loop[i]) BY <1>1 DEF L!runOnce, L!MayStart, AgentInv
    <2> DEFINE next == [loop[i] EXCEPT !.pc = first]
    <2>3. Fields(next) /\ next.turn = loop[i].turn /\ next.messages = loop[i].messages
      BY <2>2 DEF Talks
    <2>4. Talks(next) BY <2>2, <2>3, SameTalk
    <2>5. loop' = [loop EXCEPT ![i] = next] BY <2>1
    <2> HIDE DEF next
    <2> QED BY <1>1, <2>4, <2>5, LoopStep DEF L!runOnce
  <1>2. ASSUME NEW i \in L!Iter, L!CreateMessageAgain(i) PROVE AgentInv'
    <2>1. loop[i].pc # "over" /\ Talks(loop[i]) BY <1>2 DEF L!CreateMessageAgain, AgentInv
    <2> DEFINE next == [loop[i] EXCEPT !.attempt = @ + 1]
    <2>2. Fields(next) /\ next.turn = loop[i].turn /\ next.messages = loop[i].messages
      BY <2>1 DEF Talks
    <2>3. Talks(next) BY <2>1, <2>2, SameTalk
    <2>4. loop' = [loop EXCEPT ![i] = next] BY <1>2 DEF L!CreateMessageAgain
    <2> HIDE DEF next
    <2> QED BY <1>2, <2>3, <2>4, LoopStep DEF L!CreateMessageAgain
  <1>3. ASSUME NEW i \in L!Iter, L!CreateMessageFails(i) PROVE AgentInv'
    <2>1. loop[i].pc # "over" /\ Talks(loop[i]) BY <1>3 DEF L!CreateMessageFails, AgentInv
    <2>2. PICK e : loop' = [loop EXCEPT ![i] =
                              IF loop[i].pc = "rewriting"
                              THEN [loop[i] EXCEPT !.pc = "asking", !.attempt = 0]
                              ELSE [loop[i] EXCEPT !.pc = "over", !.stop = "error", !.error = e]]
      BY <1>3 DEF L!CreateMessageFails
    <2>3. CASE loop[i].pc = "rewriting"
      <3> DEFINE next == [loop[i] EXCEPT !.pc = "asking", !.attempt = 0]
      <3>1. Fields(next) /\ next.turn = loop[i].turn /\ next.messages = loop[i].messages
        BY <2>1 DEF Talks
      <3>2. Talks(next) BY <2>1, <3>1, SameTalk
      <3>3. loop' = [loop EXCEPT ![i] = next] BY <2>2, <2>3
      <3> HIDE DEF next
      <3> QED BY <1>3, <3>2, <3>3, LoopStep DEF L!CreateMessageFails
    <2>4. CASE loop[i].pc # "rewriting"
      <3> DEFINE next == [loop[i] EXCEPT !.pc = "over", !.stop = "error", !.error = e]
      <3>1. next.pc = "over" BY <2>1 DEF Talks
      <3>2. Talks(next) BY <3>1 DEF Talks
      <3>3. loop' = [loop EXCEPT ![i] = next] BY <2>2, <2>4
      <3> HIDE DEF next
      <3> QED BY <1>3, <3>2, <3>3, LoopStep DEF L!CreateMessageFails
    <2> QED BY <2>3, <2>4
  <1>4. ASSUME NEW i \in L!Iter, L!RewriteIssue(i) PROVE AgentInv'
    <2>1. loop[i].pc # "over" /\ Talks(loop[i]) BY <1>4 DEF L!RewriteIssue, AgentInv
    <2> DEFINE next == [loop[i] EXCEPT !.pc = "asking", !.attempt = 0, !.billed = @ + 1]
    <2>2. Fields(next) /\ next.turn = loop[i].turn /\ next.messages = loop[i].messages
      BY <2>1 DEF Talks
    <2>3. Talks(next) BY <2>1, <2>2, SameTalk
    <2>4. loop' = [loop EXCEPT ![i] = next] BY <1>4 DEF L!RewriteIssue
    <2> HIDE DEF next
    <2> QED BY <1>4, <2>3, <2>4, LoopStep DEF L!RewriteIssue
  <1>5. ASSUME NEW i \in L!Iter, L!Turn(i) PROVE AgentInv'
    <2>1. loop[i].pc # "over" /\ Talks(loop[i]) BY <1>5 DEF L!Turn, AgentInv
    <2>2. PICK reply \in Replies(iters) : loop' = [loop EXCEPT ![i] = L!Answered(loop[i], reply)]
      BY <1>5 DEF L!Turn
    <2>3. DOMAIN reply.blocks \subseteq Nat
      BY <2>2, OperationsAssumption DEF L!AgentAssumption, L!IsASequence, AgentInv
    <2>4. Talks(L!Answered(loop[i], reply)) BY <2>1, <2>3, AnsweredTalks
    <2> QED BY <1>5, <2>2, <2>4, LoopStep DEF L!Turn
  <1>6. ASSUME UNCHANGED <<iters, loop>> PROVE AgentInv' BY <1>6 DEF AgentInv, L!Iter
  <1>7. L!Cancel \/ L!Run \/ UNCHANGED L!agentVars => UNCHANGED <<iters, loop>>
    BY DEF L!Cancel, L!Run, L!agentVars
  <1> QED BY <1>1, <1>2, <1>3, <1>4, <1>5, <1>6, <1>7 DEF L!Next

\* Whatever the remote model replies, every request has the result of every call
\* before it, for any number of iterations, turns and attempts.
THEOREM CallsCorrect == L!Spec => []CallsAreAnswered
  <1>1. L!Init => AgentInv
    <2>1. [role |-> "user", ids |-> {}] \in Message BY DEF Message
    <2>2. /\ L!Fresh.messages \in Seq(Message) /\ L!Fresh.messages # <<>>
          /\ L!Accepted(L!Fresh.messages)
      BY <2>1 DEF L!Fresh, L!Accepted
    <2>3. Fields(L!Fresh) /\ L!Fresh.turn \in Nat BY DEF L!Fresh, Fields, FieldNames
    <2>4. Talks(L!Fresh) BY <2>2, <2>3 DEF Talks
    <2> QED BY <2>4 DEF L!Init, AgentInv
  <1>2. AgentInv => CallsAreAnswered
    BY DEF AgentInv, Talks, CallsAreAnswered, L!CallsAreAnswered
  <1> QED BY <1>1, <1>2, AgentStep, PTL DEF L!Spec

-----------------------------------------------------------------------------
(* Sums.  A sum is a fold of the community modules, which stands for a        *)
(* function chosen by its recursive equation.  That it exists, and what it    *)
(* does, follows by taking a smallest counterexample.                         *)

\* Among finite sets some is minimal.
LEMMA LeastSet ==
    ASSUME NEW S, NEW F \in SUBSET FiniteSubsetsOf(S), F # {}
    PROVE  \E s \in F : \A t \in F : t \subseteq s => t = s
<1>1. F \subseteq FiniteSubsetsOf(S)
  OBVIOUS
<1>2. IsWellFoundedOn(StrictSubsetOrdering(S), FiniteSubsetsOf(S))
  BY FS_StrictSubsetOrderingWellFounded
<1>3. PICK s \in F : \A t \in F : ~ (<<t, s>> \in StrictSubsetOrdering(S))
  BY <1>1, <1>2, WFMin, Zenon
<1>4. ASSUME NEW t \in F, t \subseteq s PROVE t = s
  BY <1>3, <1>4 DEF StrictSubsetOrdering, FiniteSubsetsOf
<1> QED
  BY <1>4

\* Among natural numbers one is the least.
LEMMA LeastNat ==
    ASSUME NEW T \in SUBSET Nat, T # {}
    PROVE  \E n \in T : \A m \in T : n <= m
<1> DEFINE G == {0..k : k \in T}
<1>1. G \in SUBSET FiniteSubsetsOf(Nat)
  <2>1. ASSUME NEW k \in T PROVE 0..k \subseteq Nat /\ IsFiniteSet(0..k)
    BY FS_Interval
  <2> QED
    BY <2>1 DEF FiniteSubsetsOf
<1>2. PICK s \in G : \A t \in G : t \subseteq s => t = s
  <2> HIDE DEF G
  <2>1. G # {} BY DEF G
  <2> QED BY <1>1, <2>1, LeastSet
<1>3. PICK n \in T : s = 0..n
  OBVIOUS
<1>4. ASSUME NEW m \in T, m < n PROVE FALSE
  <2>1. 0..m \in G /\ 0..m \subseteq s
    BY <1>3, <1>4
  <2>2. 0..m = 0..n
    BY <1>2, <1>3, <2>1
  <2>3. n \in 0..n /\ n \notin 0..m
    BY <1>4
  <2> QED
    BY <2>2, <2>3
<1> QED
  BY <1>4
\* The sums of f over the subsets of T, each made of the sum without one element.
Sums(f, T, sums) ==
    sums = [s \in SUBSET T |->
              IF s = {} THEN 0
              ELSE f[CHOOSE x \in s : TRUE] + sums[s \ {CHOOSE x \in s : TRUE}]]

\* There is one way to add up.
LEMMA SumsAreUnique ==
    ASSUME NEW f, NEW T, IsFiniteSet(T), NEW g, Sums(f, T, g), NEW R \in SUBSET T, NEW h, Sums(f, R, h)
    PROVE  \A s \in SUBSET R : g[s] = h[s]
  <1> DEFINE F == {s \in SUBSET R : g[s] # h[s]}
  <1>1. F = {}
    <2> SUFFICES ASSUME F # {} PROVE FALSE OBVIOUS
    <2>1. F \in SUBSET FiniteSubsetsOf(T)
      <3>1. \A s \in F : s \subseteq T /\ IsFiniteSet(s) BY FS_Subset
      <3> QED BY <3>1 DEF FiniteSubsetsOf
    <2> HIDE DEF F
    <2>2. PICK s \in F : \A t \in F : t \subseteq s => t = s BY <2>1, LeastSet
    <2> USE DEF F
    <2>3. s # {} BY DEF Sums
    <2>4. PICK x \in s : x = CHOOSE y \in s : TRUE BY <2>3
    <2>5. s \ {x} \notin F BY <2>2
    <2>6. g[s \ {x}] = h[s \ {x}] BY <2>5
    <2>7. g[s] = f[x] + g[s \ {x}] BY <2>3, <2>4 DEF Sums
    <2>8. h[s] = f[x] + h[s \ {x}] BY <2>3, <2>4 DEF Sums
    <2> QED BY <2>6, <2>7, <2>8
  <1> QED BY <1>1

\* Any function can be added up over a finite set: a smallest set over which it
\* could not would have smaller subsets over which it can.
LEMMA SumsExist ==
    ASSUME NEW f, NEW S, IsFiniteSet(S)
    PROVE  \E g : Sums(f, S, g)
  <1> DEFINE F == {T \in SUBSET S : ~ \E g : Sums(f, T, g)}
  <1> SUFFICES ASSUME F # {} PROVE FALSE OBVIOUS
  <1>1. F \in SUBSET FiniteSubsetsOf(S)
    <2>1. \A T \in F : T \subseteq S /\ IsFiniteSet(T) BY FS_Subset
    <2> QED BY <2>1 DEF FiniteSubsetsOf
  <1> HIDE DEF F
  <1>2. PICK T \in F : \A R \in F : R \subseteq T => R = T BY <1>1, LeastSet
  <1> USE DEF F
  <1> DEFINE G(R) == CHOOSE g : Sums(f, R, g)
             some(s) == CHOOSE x \in s : TRUE
             less(s) == s \ {some(s)}
  <1>3. ASSUME NEW R \in SUBSET T, R # T PROVE Sums(f, R, G(R))
    <2>1. R \notin F BY <1>2, <1>3
    <2>2. \E g : Sums(f, R, g) BY <2>1
    <2> QED BY <2>2
  <1> HIDE DEF G
  <1> DEFINE all == [s \in SUBSET T |-> IF s = {} THEN 0 ELSE f[some(s)] + G(less(s))[less(s)]]
  <1>4. ASSUME NEW s \in SUBSET T, s # {} PROVE G(less(s))[less(s)] = all[less(s)]
    <2>1. less(s) \in SUBSET T /\ less(s) # T /\ IsFiniteSet(less(s))
      <3>1. some(s) \in s BY <1>4
      <3> QED BY <3>1, FS_Subset
    <2>2. Sums(f, less(s), G(less(s))) BY <1>3, <2>1
    <2> DEFINE r == less(s)
    <2> HIDE DEF less
    <2>3. CASE r = {}
      <3>1. G(r)[r] = 0 BY <2>2, <2>3 DEF Sums
      <3> QED BY <3>1, <2>3
    <2>4. CASE r # {}
      <3> DEFINE q == r \ {some(r)}
      <3>1. q \in SUBSET T /\ q # T /\ q \in SUBSET r BY <2>1
      <3>2. Sums(f, q, G(q)) BY <1>3, <3>1
      <3>3. G(r)[q] = G(q)[q] BY <2>1, <2>2, <3>1, <3>2, SumsAreUnique
      <3>4. G(r)[r] = f[some(r)] + G(r)[q] BY <2>2, <2>4 DEF Sums
      <3>5. all[r] = f[some(r)] + G(q)[q] BY <2>1, <2>4 DEF less
      <3> QED BY <3>3, <3>4, <3>5
    <2> QED BY <2>3, <2>4
  <1>5. Sums(f, T, all)
    <2> DEFINE body == [s \in SUBSET T |-> IF s = {} THEN 0 ELSE f[some(s)] + all[less(s)]]
    <2>1. ASSUME NEW s \in SUBSET T PROVE all[s] = body[s]
      <3>1. CASE s = {} BY <3>1
      <3>2. CASE s # {}
        <4>1. all[s] = f[some(s)] + G(less(s))[less(s)] BY <3>2
        <4>2. body[s] = f[some(s)] + all[less(s)] BY <3>2
        <4>3. G(less(s))[less(s)] = all[less(s)] BY <1>4, <3>2
        <4> HIDE DEF all, body
        <4> QED BY <4>1, <4>2, <4>3
      <3> QED BY <3>1, <3>2
    <2>2. all = [s \in SUBSET T |-> all[s]] OBVIOUS
    <2>3. body = [s \in SUBSET T |-> body[s]] OBVIOUS
    <2>4. all = body
      <3> HIDE DEF all, body
      <3> QED BY <2>1, <2>2, <2>3
    <2> QED BY <2>4 DEF Sums
  <1> QED BY <1>5

\* What SumFunctionOnSet is for a finite set: the sum it has been chosen as.
LEMMA SumIsOneOfSums ==
    ASSUME NEW f, NEW S, IsFiniteSet(S)
    PROVE  \E g : Sums(f, S, g) /\ SumFunctionOnSet(f, S) = g[S]
  <1> DEFINE Is(g) == g = [s \in SUBSET S |->
              IF s = {} THEN 0
              ELSE f[CHOOSE x \in s : TRUE] + g[s \ {CHOOSE x \in s : TRUE}]]
             it == CHOOSE g : Is(g)
  <1>1. SumFunctionOnSet(f, S) = it[S]
    BY DEF SumFunctionOnSet, FoldFunctionOnSet, MapThenFoldSet
  <1>2. \E g : Is(g)
    <2>1. PICK g : Sums(f, S, g) BY SumsExist
    <2>2. Is(g) BY <2>1 DEF Sums
    <2> HIDE DEF Is
    <2> QED BY <2>2
  <1>3. Sums(f, S, it)
    <2>1. Is(it)
      <3> HIDE DEF Is
      <3> QED BY <1>2
    <2> QED BY <2>1 DEF Sums
  <1> QED BY <1>1, <1>3

\* A sum of integers is one.
LEMMA SumIsInt ==
    ASSUME NEW S, IsFiniteSet(S), NEW f \in [S -> Int]
    PROVE  SumFunctionOnSet(f, S) \in Int
  <1>1. PICK g : Sums(f, S, g) /\ SumFunctionOnSet(f, S) = g[S] BY SumIsOneOfSums
  <1> DEFINE F == {s \in SUBSET S : g[s] \notin Int}
  <1>2. F = {}
    <2> SUFFICES ASSUME F # {} PROVE FALSE OBVIOUS
    <2>1. F \in SUBSET FiniteSubsetsOf(S)
      <3>1. \A s \in F : s \subseteq S /\ IsFiniteSet(s) BY FS_Subset
      <3> QED BY <3>1 DEF FiniteSubsetsOf
    <2> HIDE DEF F
    <2>2. PICK s \in F : \A t \in F : t \subseteq s => t = s BY <2>1, LeastSet
    <2> USE DEF F
    <2>3. s # {} BY <1>1 DEF Sums
    <2>4. PICK x \in s : x = CHOOSE y \in s : TRUE BY <2>3
    <2>5. g[s \ {x}] \in Int BY <2>2
    <2>6. g[s] = f[x] + g[s \ {x}] BY <1>1, <2>3, <2>4 DEF Sums
    <2>7. f[x] \in Int OBVIOUS
    <2> QED BY <2>5, <2>6, <2>7
  <1> QED BY <1>1, <1>2

\* Nothing adds up to nothing.
LEMMA SumOfZeros ==
    ASSUME NEW S, IsFiniteSet(S), NEW f, \A x \in S : f[x] = 0
    PROVE  SumFunctionOnSet(f, S) = 0
  <1>1. PICK g : Sums(f, S, g) /\ SumFunctionOnSet(f, S) = g[S] BY SumIsOneOfSums
  <1> DEFINE F == {s \in SUBSET S : g[s] # 0}
  <1>2. F = {}
    <2> SUFFICES ASSUME F # {} PROVE FALSE OBVIOUS
    <2>1. F \in SUBSET FiniteSubsetsOf(S)
      <3>1. \A s \in F : s \subseteq S /\ IsFiniteSet(s) BY FS_Subset
      <3> QED BY <3>1 DEF FiniteSubsetsOf
    <2> HIDE DEF F
    <2>2. PICK s \in F : \A t \in F : t \subseteq s => t = s BY <2>1, LeastSet
    <2> USE DEF F
    <2>3. s # {} BY <1>1 DEF Sums
    <2>4. PICK x \in s : x = CHOOSE y \in s : TRUE BY <2>3
    <2>5. g[s \ {x}] = 0 BY <2>2
    <2>6. g[s] = f[x] + g[s \ {x}] BY <1>1, <2>3, <2>4 DEF Sums
    <2> QED BY <2>5, <2>6
  <1> QED BY <1>1, <1>2

\* One more in one place is one more in the sum.
LEMMA SumGrows ==
    ASSUME NEW S, IsFiniteSet(S), NEW f \in [S -> Int], NEW g \in [S -> Int], NEW one \in S,
           \A x \in S : g[x] = IF x = one THEN f[x] + 1 ELSE f[x]
    PROVE  SumFunctionOnSet(g, S) = SumFunctionOnSet(f, S) + 1
  <1>1. PICK u : Sums(f, S, u) /\ SumFunctionOnSet(f, S) = u[S] BY SumIsOneOfSums
  <1>2. PICK v : Sums(g, S, v) /\ SumFunctionOnSet(g, S) = v[S] BY SumIsOneOfSums
  <1> DEFINE Good(s) == u[s] \in Int /\ v[s] = IF one \in s THEN u[s] + 1 ELSE u[s]
             F == {s \in SUBSET S : ~Good(s)}
  <1>3. F = {}
    <2> SUFFICES ASSUME F # {} PROVE FALSE OBVIOUS
    <2>1. F \in SUBSET FiniteSubsetsOf(S)
      <3>1. \A s \in F : s \subseteq S /\ IsFiniteSet(s) BY FS_Subset
      <3> QED BY <3>1 DEF FiniteSubsetsOf
    <2> HIDE DEF F
    <2>2. PICK s \in F : \A t \in F : t \subseteq s => t = s BY <2>1, LeastSet
    <2> USE DEF F
    <2>3. s # {} BY <1>1, <1>2 DEF Sums
    <2>4. PICK x \in s : x = CHOOSE y \in s : TRUE BY <2>3
    <2>5. Good(s \ {x}) BY <2>2
    <2>6. u[s] = f[x] + u[s \ {x}] BY <1>1, <2>3, <2>4 DEF Sums
    <2>7. v[s] = g[x] + v[s \ {x}] BY <1>2, <2>3, <2>4 DEF Sums
    <2>8. f[x] \in Int /\ g[x] = IF x = one THEN f[x] + 1 ELSE f[x] OBVIOUS
    <2>9. ~Good(s) OBVIOUS
    <2> QED BY <2>5, <2>6, <2>7, <2>8, <2>9
  <1>4. Good(S) BY <1>3
  <1> QED BY <1>1, <1>2, <1>4

-----------------------------------------------------------------------------
(* The ranking.                                                            *)

\* All of the bucket once, in an order of falling worth.
Ranks(o, bucket, worth) ==
    /\ o \in [1..Cardinality(bucket) -> bucket]
    /\ \A a \in 1..Cardinality(bucket), b \in 1..Cardinality(bucket) :
          a < b => o[a] # o[b] /\ worth[o[a]] >= worth[o[b]]

\* What is shown: each once, all or TopK of them, none left out that is worth more.
Best(e, bucket, worth) ==
    LET shown == {e[k] : k \in 1..Len(e)}
    IN  /\ e # <<>>
        /\ Cardinality(shown) = Len(e)
        /\ shown \subseteq bucket
        /\ Len(e) = TopK \/ shown = bucket
        /\ \A k \in 1..Len(e) : \A x \in bucket \ {e[j] : j \in 1..k} : worth[e[k]] >= worth[x]

\* The first TopK of a ranking are the best of it.
LEMMA BestAreShown ==
    ASSUME NEW bucket, IsFiniteSet(bucket), bucket # {}, NEW worth \in [bucket -> Int],
           NEW o, Ranks(o, bucket, worth)
    PROVE  Best(L!Cut(o), bucket, worth)
  <1> DEFINE e == L!Cut(o)
  <1> DEFINE n == Cardinality(bucket)
             m == IF n < TopK THEN n ELSE TopK
             shown == {e[k] : k \in 1..Len(e)}
  <1>0. o \in [1..n -> bucket] BY DEF Ranks
  <1>1. n \in Nat \ {0} BY FS_CardinalityType, FS_EmptySet
  <1>2. TopK \in Nat \ {0} BY OperationsAssumption DEF L!AgentAssumption
  <1>3. m \in 1..n /\ m <= TopK BY <1>1, <1>2
  <1>4. o \in Seq(bucket) /\ Len(o) = n BY <1>0, <1>1
  <1>5. e = SubSeq(o, 1, m) BY <1>1, <1>4 DEF L!Cut
  <1> HIDE DEF n, m, e
  <1>6. /\ Len(e) = m /\ e \in Seq(bucket)
        /\ \A k \in 1..m : e[k] = o[k]
    <2>1. \A k \in 1..m : o[k] \in bucket BY <1>0, <1>1, <1>3
    <2> QED BY <1>1, <1>3, <1>5, <2>1, SubSeqProperties
  <1>7. shown = {o[k] : k \in 1..m} BY <1>6
  <1> HIDE DEF shown
  <1>8. shown \subseteq bucket BY <1>0, <1>1, <1>3, <1>7
  <1>9. \A k, j \in 1..n : k # j => o[k] # o[j]
    BY <1>1 DEF n, Ranks
  <1>10. Cardinality(shown) = m
    <2> DEFINE g == [k \in 1..m |-> o[k]]
    <2>1. g \in Bijection(1..m, shown)
      BY <1>1, <1>3, <1>7, <1>9 DEF Bijection, Injection, Surjection, IsInjective
    <2>2. ExistsBijection(1..m, shown) BY <2>1 DEF ExistsBijection
    <2> QED BY <1>1, <1>3, <2>2, FS_CountingElements
  <1>11. Len(e) = TopK \/ shown = bucket
    <2>1. CASE m = n
      <3>1. shown = bucket BY <1>8, <1>10, <2>1, FS_Subset DEF n
      <3> QED BY <3>1
    <2>2. CASE m # n
      <3>1. m = TopK BY <2>2 DEF m
      <3> QED BY <1>6, <3>1
    <2> QED BY <2>1, <2>2
  <1>12. \A x \in bucket : \E k \in 1..n : o[k] = x
    <2> DEFINE every == {o[k] : k \in 1..n}
               g == [k \in 1..n |-> o[k]]
    <2>1. g \in Bijection(1..n, every)
      BY <1>1, <1>9 DEF Bijection, Injection, Surjection, IsInjective
    <2>2. Cardinality(every) = n
      <3>1. ExistsBijection(1..n, every) BY <2>1 DEF ExistsBijection
      <3> QED BY <1>1, <3>1, FS_CountingElements
    <2>3. every \subseteq bucket BY <1>0
    <2>4. every = bucket BY <2>2, <2>3, FS_Subset DEF n
    <2> QED BY <2>4
  <1>13. ASSUME NEW k \in 1..Len(e), NEW x \in bucket \ {e[j] : j \in 1..k}
         PROVE  worth[e[k]] >= worth[x]
    <2>1. PICK j \in 1..n : o[j] = x BY <1>12
    <2>2. k \in 1..n /\ e[k] = o[k] /\ \A i \in 1..k : e[i] = o[i] BY <1>1, <1>3, <1>6
    <2>3. j \notin 1..k BY <2>1, <2>2
    <2>4. k < j BY <1>1, <2>1, <2>2, <2>3
    <2> QED BY <2>1, <2>2, <2>4 DEF n, Ranks
  <1>14. e # <<>> BY <1>3, <1>6
  <1> QED BY <1>6, <1>8, <1>10, <1>11, <1>13, <1>14 DEF shown, Best, e

\* A finite set's image is finite.
LEMMA FiniteImage ==
    ASSUME NEW S, IsFiniteSet(S), NEW f
    PROVE  IsFiniteSet({f[x] : x \in S})
  <1> DEFINE T == {f[x] : x \in S}
             g == [x \in S |-> f[x]]
  <1>1. g \in Surjection(S, T) BY DEF Surjection
  <1> QED BY <1>1, FS_Surjection

\* LocAgent's sum is this one.
LEMMA SumsAreTheSame ==
    ASSUME NEW f
    PROVE  L!SumFunction(f) = SumFunctionOnSet(f, DOMAIN f)
  BY DEF L!SumFunction, L!SumFunctionOnSet, L!FoldFunctionOnSet, L!MapThenFoldSet,
         SumFunctionOnSet, FoldFunctionOnSet, MapThenFoldSet

\* A place's share is exactly 1/rank of a first place's, at every rank of a list.
LEMMA SharesAreExact ==
    ASSUME NEW rank \in 1..TopK
    PROVE  L!Share(rank) * rank = Unit
  <1>1. rank \in Nat \ {0} /\ Unit \in Nat \ {0} /\ Unit % rank = 0
    BY OperationsAssumption DEF L!AgentAssumption
  <1>2. Unit = rank * (Unit \div rank) + (Unit % rank) BY <1>1
  <1> QED BY <1>1, <1>2 DEF L!Share

\* Scores can be compared.
LEMMA ScoresAreInts ==
    ASSUME NEW lists, IsFiniteSet(DOMAIN lists), NEW e
    PROVE  L!score(lists, e) \in Int
  <1> DEFINE P == L!Places(lists, e)
             f == [p \in P |-> L!Share(p[2])]
  <1>1. TopK \in Nat \ {0} /\ Unit \in Nat BY OperationsAssumption DEF L!AgentAssumption
  <1>2. P \in SUBSET ((DOMAIN lists) \X (1..TopK)) BY DEF L!Places
  <1>3. IsFiniteSet(P)
    <2>1. IsFiniteSet(1..TopK) BY <1>1, FS_Interval
    <2>2. IsFiniteSet((DOMAIN lists) \X (1..TopK)) BY <2>1, FS_Product
    <2> HIDE DEF P
    <2> QED BY <1>2, <2>2, FS_Subset
  <1>4. f \in [P -> Int]
    <2>1. ASSUME NEW p \in P PROVE L!Share(p[2]) \in Int
      <3>1. p[2] \in 1..TopK BY <1>2
      <3> QED BY <1>1, <3>1 DEF L!Share
    <2> QED BY <2>1
  <1>5. L!score(lists, e) = SumFunctionOnSet(f, P)
    <2>1. DOMAIN f = P OBVIOUS
    <2>2. L!score(lists, e) = L!SumFunction(f) BY DEF L!score
    <2> QED BY <2>1, <2>2, SumsAreTheSame
  <1> HIDE DEF f, P
  <1> QED BY <1>3, <1>4, <1>5, SumIsInt

\* LocAgent counts as this module does.
LEMMA SameCardinality == ASSUME NEW S PROVE L!Cardinality(S) = Cardinality(S)
  BY DEF L!Cardinality, Cardinality

\* What aggregateByMRR returns is the best of what the lists name.
LEMMA AggregateIsBest ==
    ASSUME NEW lists, IsFiniteSet(DOMAIN lists), DOMAIN lists # {},
           \A i \in DOMAIN lists : L!IsASequence(lists[i]) /\ lists[i] # <<>>,
           NEW e \in L!aggregateByMRR(lists)
    PROVE  LET all == UNION {{lists[i][r] : r \in 1..Len(lists[i])} : i \in DOMAIN lists}
           IN  Best(e, all, [x \in all |-> L!score(lists, x)])
  <1> DEFINE named(i) == {lists[i][r] : r \in 1..Len(lists[i])}
             all == UNION {named(i) : i \in DOMAIN lists}
             n == Cardinality(all)
             worth == [x \in all |-> L!score(lists, x)]
  <1>1. ASSUME NEW i \in DOMAIN lists PROVE IsFiniteSet(named(i)) /\ named(i) # {}
    <2>1. L!IsASequence(lists[i]) /\ lists[i] # <<>> OBVIOUS
    <2>2. Len(lists[i]) \in Nat \ {0} BY <2>1 DEF L!IsASequence
    <2>3. IsFiniteSet(1..Len(lists[i])) BY <2>2, FS_Interval
    <2> QED BY <2>2, <2>3, FiniteImage
  <1> HIDE DEF named
  <1>2. IsFiniteSet(all)
    <2> DEFINE f == [i \in DOMAIN lists |-> named(i)]
    <2>1. IsFiniteSet({f[i] : i \in DOMAIN lists}) BY FiniteImage
    <2>2. {f[i] : i \in DOMAIN lists} = {named(i) : i \in DOMAIN lists} OBVIOUS
    <2> QED BY <1>1, <2>1, <2>2, FS_UNION
  <1>3. all # {} BY <1>1
  <1>4. PICK o \in [1..n -> all] :
            /\ e = L!Cut(o)
            /\ \A a \in 1..n, b \in 1..n : a < b => o[a] # o[b] /\ ~L!Before(lists, o[b], o[a])
    <2>1. L!Cardinality(all) = n BY SameCardinality
    <2> QED BY <2>1 DEF L!aggregateByMRR, named
  <1>5. worth \in [all -> Int] BY ScoresAreInts
  <1>6. ASSUME NEW a \in 1..n, NEW b \in 1..n, a < b PROVE o[a] # o[b] /\ worth[o[a]] >= worth[o[b]]
    <2>1. o[a] # o[b] /\ ~L!Before(lists, o[b], o[a]) BY <1>4, <1>6
    <2>2. L!score(lists, o[a]) \in Int /\ L!score(lists, o[b]) \in Int BY ScoresAreInts
    <2>3. L!score(lists, o[a]) >= L!score(lists, o[b]) BY <2>1, <2>2 DEF L!Before
    <2> QED BY <2>1, <2>3
  <1>7. Ranks(o, all, worth) BY <1>4, <1>6 DEF Ranks
  <1>8. Best(e, all, worth)
    <2> HIDE DEF all, worth
    <2> QED BY <1>2, <1>3, <1>4, <1>5, <1>7, BestAreShown
  <1> QED BY <1>8 DEF named

-----------------------------------------------------------------------------
(* What Run returns.  The inductive invariant says of each iteration what it  *)
(* may have named, of serial iterations that one starts when those before it  *)
(* are over and have not failed, and that the replies received are those in   *)
(* the iterations' bills.  Nothing is under way once Run has returned.        *)

\* An iteration, at any point.
Goes(it) ==
    /\ Fields(it)
    /\ it.pc \in {"waiting", "rewriting", "asking", "over"} /\ it.billed \in Nat
    /\ L!IsASequence(it.entities)
    /\ it.pc # "over" \/ it.error # None => it.entities = <<>>
    /\ it.pc # "over" => it.error = None
    /\ it.stop \notin {"consistency", "partial_consistency"}

OneAfterAnother ==
    ~parallel => \A i, j \in L!Iter : j < i /\ loop[i].pc # "waiting" => L!Over(j) /\ ~L!Failed(j)

LoopInv ==
    /\ iters \in 1..MaxIters /\ (iters = 1 => ~parallel)
    /\ loop = [i \in L!Iter |-> loop[i]]
    /\ \A i \in L!Iter : Goes(loop[i])
    /\ OneAfterAnother
    /\ received = L!Billed
    /\ result # None => \A i \in L!Iter : loop[i].pc \in {"waiting", "over"}

\* There are finitely many iterations.
LEMMA IterIsFinite == LoopInv => iters \in Nat /\ IsFiniteSet(L!Iter)
  <1> SUFFICES ASSUME LoopInv PROVE iters \in Nat /\ IsFiniteSet(L!Iter) OBVIOUS
  <1>1. iters \in Nat BY OperationsAssumption DEF L!AgentAssumption, LoopInv
  <1> QED BY <1>1, FS_Interval DEF L!Iter

\* One iteration goes on, with one reply more in its bill, or none.
LEMMA LoopGoes ==
    ASSUME LoopInv, result = None, UNCHANGED <<iters, parallel, result>>,
           NEW i \in L!Iter, NEW it, Goes(it), loop' = [loop EXCEPT ![i] = it],
           loop[i].pc # "over",
           ~parallel /\ loop[i].pc = "waiting" => \A j \in 1..(i - 1) : L!Over(j) /\ ~L!Failed(j),
           \/ it.billed = loop[i].billed /\ received' = received
           \/ it.billed = loop[i].billed + 1 /\ received' = received + 1
    PROVE  LoopInv'
  <1>1. L!Iter' = L!Iter BY DEF L!Iter
  <1>2. loop' = [j \in L!Iter |-> IF j = i THEN it ELSE loop[j]] BY DEF LoopInv
  <1>3. \A j \in L!Iter : Goes(loop'[j]) BY <1>2 DEF LoopInv
  <1>4. OneAfterAnother'
    <2> SUFFICES ASSUME ~parallel, NEW k \in L!Iter, NEW j \in L!Iter, j < k, loop'[k].pc # "waiting"
                 PROVE  loop'[j].pc = "over" /\ loop'[j].error = None
      BY <1>1 DEF OneAfterAnother, L!Over, L!Failed
    <2>1. loop[j].pc = "over" /\ loop[j].error = None
      <3>1. CASE loop[k].pc # "waiting" BY <3>1 DEF LoopInv, OneAfterAnother, L!Over, L!Failed
      <3>2. CASE loop[k].pc = "waiting"
        <4>1. k = i BY <1>2, <3>2
        <4>2. j \in 1..(i - 1) BY <4>1, IterIsFinite DEF L!Iter
        <4> QED BY <3>2, <4>1, <4>2 DEF L!Over, L!Failed
      <3> QED BY <3>1, <3>2
    <2>2. j # i BY <2>1
    <2> QED BY <1>2, <2>1, <2>2
  <1>5. received' = L!Billed'
    <2> DEFINE f == [j \in L!Iter |-> loop[j].billed]
               g == [j \in L!Iter |-> loop'[j].billed]
    <2>1. f \in [L!Iter -> Int] /\ g \in [L!Iter -> Int] BY <1>3 DEF LoopInv, Goes
    <2>2. L!Billed = SumFunctionOnSet(f, L!Iter)
      <3>1. L!Billed = L!SumFunction(f) /\ DOMAIN f = L!Iter BY DEF L!Billed
      <3> HIDE DEF f
      <3> QED BY <3>1, SumsAreTheSame
    <2>3. L!Billed' = SumFunctionOnSet(g, L!Iter)
      <3>1. L!Billed' = L!SumFunction(g) /\ DOMAIN g = L!Iter BY <1>1 DEF L!Billed
      <3> HIDE DEF g
      <3> QED BY <3>1, SumsAreTheSame
    <2>4. CASE it.billed = loop[i].billed /\ received' = received
      <3>1. f = g BY <1>2, <2>4
      <3> QED BY <2>2, <2>3, <2>4, <3>1 DEF LoopInv
    <2>5. CASE it.billed = loop[i].billed + 1 /\ received' = received + 1
      <3>1. \A j \in L!Iter : g[j] = IF j = i THEN f[j] + 1 ELSE f[j] BY <1>2, <2>5
      <3>2. IsFiniteSet(L!Iter) BY IterIsFinite
      <3> HIDE DEF f, g
      <3>3. SumFunctionOnSet(g, L!Iter) = SumFunctionOnSet(f, L!Iter) + 1
        BY <2>1, <3>1, <3>2, SumGrows
      <3> QED BY <2>2, <2>3, <2>5, <3>3 DEF LoopInv
    <2> QED BY <2>4, <2>5
  <1> QED BY <1>1, <1>2, <1>3, <1>4, <1>5 DEF LoopInv

\* All iterations start unbilled.
LEMMA LoopStarts == L!Init => LoopInv
  <1> SUFFICES ASSUME L!Init PROVE LoopInv OBVIOUS
  <1>1. Goes(L!Fresh)
    <2>1. L!Fresh.entities = <<>> /\ L!IsASequence(<<>>) BY DEF L!Fresh, L!IsASequence
    <2> QED BY <2>1 DEF L!Fresh, Goes, Fields, FieldNames
  <1>2. received = L!Billed
    <2> DEFINE f == [i \in L!Iter |-> loop[i].billed]
    <2>1. \A i \in L!Iter : f[i] = 0 BY DEF L!Init, L!Fresh
    <2>2. IsFiniteSet(L!Iter)
      <3>1. iters \in Nat BY OperationsAssumption DEF L!AgentAssumption, L!Init
      <3> QED BY <3>1, FS_Interval DEF L!Iter
    <2>3. L!Billed = L!SumFunction(f) /\ DOMAIN f = L!Iter BY DEF L!Billed
    <2> HIDE DEF f
    <2>4. L!Billed = 0 BY <2>1, <2>2, <2>3, SumsAreTheSame, SumOfZeros
    <2> QED BY <2>4 DEF L!Init
  <1>3. loop = [i \in L!Iter |-> L!Fresh] BY DEF L!Init
  <1>4. L!Fresh.pc = "waiting" BY DEF L!Fresh
  <1>5. OneAfterAnother BY <1>3, <1>4 DEF OneAfterAnother
  <1>6. \A i \in L!Iter : loop[i].pc \in {"waiting", "over"} BY <1>3, <1>4
  <1>7. iters \in 1..MaxIters /\ (iters = 1 => ~parallel) BY DEF L!Init
  <1> QED BY <1>1, <1>2, <1>3, <1>5, <1>6, <1>7 DEF LoopInv

\* What a list is cut to is a list.
LEMMA CutIsASequence ==
    ASSUME NEW list, L!IsASequence(list)
    PROVE  L!IsASequence(L!Cut(list))
  <1> DEFINE m == IF Len(list) < TopK THEN Len(list) ELSE TopK
             R == L!Range(list)
  <1>1. list \in Seq(R) BY DEF L!IsASequence
  <1> HIDE DEF R
  <1>2. TopK \in Nat \ {0} BY OperationsAssumption DEF L!AgentAssumption
  <1>3. m \in Nat /\ m <= Len(list) BY <1>1, <1>2
  <1>4. L!Cut(list) = SubSeq(list, 1, m) BY DEF L!Cut
  <1> HIDE DEF m
  <1>5. \A k \in 1..m : list[k] \in R BY <1>1, <1>3
  <1>6. SubSeq(list, 1, m) \in Seq(R) BY <1>3, <1>5, SubSeqProperties
  <1>7. ASSUME NEW s \in Seq(R) PROVE s \in Seq({s[x] : x \in DOMAIN s})
    <2>1. Len(s) \in Nat /\ DOMAIN s = 1..Len(s) /\ s = [k \in 1..Len(s) |-> s[k]] OBVIOUS
    <2>2. s \in [1..Len(s) -> {s[x] : x \in DOMAIN s}] BY <2>1
    <2> QED BY <2>1, <2>2, SeqDef
  <1> QED BY <1>4, <1>6, <1>7 DEF L!IsASequence, L!Range

\* A finite set of numbers has a last one: an accepted finalize is found.
LEMMA MaxIsThere ==
    ASSUME NEW S, IsFiniteSet(S), S \subseteq Nat, S # {}
    PROVE  L!Max(S) \in S
  <1> DEFINE above(x) == {y \in S : y > x}
             F == {above(x) : x \in S}
  <1>1. F \in SUBSET FiniteSubsetsOf(S) /\ F # {}
    <2>1. \A T \in F : T \subseteq S /\ IsFiniteSet(T) BY FS_Subset
    <2> QED BY <2>1 DEF FiniteSubsetsOf
  <1>2. PICK T \in F : \A R \in F : R \subseteq T => R = T
    <2> HIDE DEF F
    <2> QED BY <1>1, LeastSet
  <1>3. PICK x \in S : T = above(x) BY <1>2
  <1>4. ASSUME NEW y \in S, y > x PROVE FALSE
    <2>1. \A z \in S : z > y => z > x BY <1>4
    <2>2. above(y) \subseteq above(x) BY <2>1
    <2>3. above(y) \in F /\ above(y) \subseteq T BY <1>3, <2>2
    <2>4. y \in T /\ y \notin above(y) BY <1>3, <1>4
    <2> QED BY <1>2, <2>3, <2>4
  <1>5. \A y \in S : x >= y BY <1>4
  <1> QED BY <1>5 DEF L!Max

\* A reply adds one to the bill, and a list of entities if it ends the loop.
LEMMA AnsweredGoes ==
    ASSUME NEW it, it.pc = "asking", Goes(it), NEW reply, L!IsASequence(reply.blocks),
           \A k \in DOMAIN reply.blocks : L!IsASequence(reply.blocks[k].entities)
    PROVE  Goes(L!Answered(it, reply)) /\ L!Answered(it, reply).billed = it.billed + 1
  <1> DEFINE accepted == {k \in DOMAIN reply.blocks : L!handleFinalize(reply.blocks[k])}
             results == L!toolResults(reply, it.turn)
             calls == L!CallIds(reply, it.turn)
             said == [it EXCEPT !.attempt = 0, !.billed = @ + 1,
                                !.messages = L!Exchanged(@, calls, results)]
             entities == L!Cut(reply.blocks[L!Max(accepted)].entities)
  <1> USE DEF FieldNames
  <1>0. Fields(it) /\ it.billed \in Nat /\ it.entities = <<>> /\ it.error = None
       /\ it.stop \notin {"consistency", "partial_consistency"}
    BY DEF Goes
  <1>1. /\ Fields(said) /\ said.billed = it.billed + 1 /\ said.pc = "asking"
        /\ said.entities = <<>> /\ said.error = None /\ said.stop = it.stop
    BY <1>0 DEF Fields
  <1>2. L!IsASequence(<<>>) BY DEF L!IsASequence
  <1>3. accepted # {} => L!IsASequence(entities)
    <2>1. \E n \in Nat : DOMAIN reply.blocks = 1..n BY DEF L!IsASequence
    <2>2. DOMAIN reply.blocks \subseteq Nat /\ IsFiniteSet(DOMAIN reply.blocks) BY <2>1, FS_Interval
    <2>3. IsFiniteSet(accepted) /\ accepted \subseteq Nat BY <2>2, FS_Subset
    <2>4. accepted # {} => L!Max(accepted) \in accepted
      <3> HIDE DEF accepted
      <3> QED BY <2>3, MaxIsThere
    <2> QED BY <2>4, CutIsASequence
  <1> DEFINE done(stop) == [said EXCEPT !.pc = "over", !.stop = stop]
             next == [said EXCEPT !.turn = @ + 1]
             named == [said EXCEPT !.pc = "over", !.stop = "finalized", !.entities = entities]
  <1>4. \/ accepted # {} /\ L!Answered(it, reply) = named
        \/ L!Answered(it, reply) = done("no_finalize")
        \/ L!Answered(it, reply) = done("max_turns")
        \/ L!Answered(it, reply) = next
    BY DEF L!Answered
  <1> HIDE DEF said, accepted, entities
  <1>5. ASSUME NEW stop \in {"no_finalize", "max_turns"}
        PROVE  Goes(done(stop)) /\ done(stop).billed = it.billed + 1
    <2>1. /\ Fields(done(stop)) /\ done(stop).billed = it.billed + 1 /\ done(stop).pc = "over"
          /\ done(stop).entities = <<>> /\ done(stop).stop = stop
      BY <1>1 DEF Fields
    <2> HIDE DEF done
    <2> QED BY <1>0, <1>2, <2>1 DEF Goes
  <1>6. Goes(next) /\ next.billed = it.billed + 1
    <2>1. /\ Fields(next) /\ next.billed = it.billed + 1 /\ next.pc = "asking"
          /\ next.entities = <<>> /\ next.error = None /\ next.stop = it.stop
      BY <1>1 DEF Fields
    <2> HIDE DEF next
    <2> QED BY <1>0, <1>2, <2>1 DEF Goes
  <1>7. accepted # {} => Goes(named) /\ named.billed = it.billed + 1
    <2>1. /\ Fields(named) /\ named.billed = it.billed + 1 /\ named.pc = "over"
          /\ named.entities = entities /\ named.error = None /\ named.stop = "finalized"
      BY <1>1 DEF Fields
    <2> HIDE DEF named
    <2> QED BY <1>0, <1>3, <2>1 DEF Goes
  <1> QED BY <1>4, <1>5, <1>6, <1>7

AllNamed == UNION {L!NamedBy(i) : i \in L!Named}

\* What AnswerIsJustified says of a list made from several.
Fused(e) ==
    LET shown == {e[k] : k \in 1..Len(e)}
    IN  /\ Cardinality(shown) = Len(e)
        /\ shown \subseteq AllNamed
        /\ Len(e) = TopK \/ shown = AllNamed
        /\ \A k \in 1..Len(e) : \A x \in AllNamed \ {e[j] : j \in 1..k} : L!MRR(e[k]) >= L!MRR(x)

\* What AnswerIsJustified says of a result.
Justified(r) ==
    /\ r.billed = received
    /\ r.error # None =>
          /\ \E i \in L!Iter : L!Failed(i) /\ loop[i].error = r.error
          /\ L!Named = {}
    /\ r.error = None =>
          /\ r.entities = <<>> <=> L!Named = {}
          /\ r.lists = [i \in L!Named |-> loop[i].entities]
          /\ IF iters = 1 THEN r.entities = loop[1].entities ELSE Fused(r.entities)
    /\ r.stop = "partial_consistency" => \E i \in L!Iter : L!Failed(i)
    /\ r.stop = "consistency" => \A i \in L!Iter : L!Over(i) /\ ~L!Failed(i)

AnswerInv == LoopInv /\ (result # None => Justified(result))

\* The invariant is about what AnswerIsJustified says.
LEMMA InvJustifies == AnswerInv => AnswerIsJustified
  <1> SUFFICES ASSUME LoopInv, result # None, Justified(result) PROVE AnswerIsJustified
    BY DEF AnswerInv, AnswerIsJustified, L!AnswerIsJustified
  <1>1. iters > 1 => iters # 1
    BY IterIsFinite
  <1> QED BY <1>1, SameCardinality DEF AnswerIsJustified, L!AnswerIsJustified, Justified, Fused, AllNamed

\* The mean reciprocal rank is what the code adds up.
LEMMA ScoreIsMRR ==
    ASSUME NEW lists, lists = [i \in L!Named |-> loop[i].entities], NEW e
    PROVE  L!score(lists, e) = L!MRR(e)
  <1>1. L!Places(lists, e) = {q \in L!Named \X (1..TopK) : q[2] <= Len(loop[q[1]].entities)
                                                         /\ loop[q[1]].entities[q[2]] = e}
    BY DEF L!Places
  <1> QED BY <1>1 DEF L!score, L!MRR

\* One iteration returns what it named, or its error.
LEMMA SingleIsJustified ==
    ASSUME LoopInv, L!RunSingle
    PROVE  Justified(result')
  <1>1. iters = 1 /\ L!Iter = {1} /\ L!Over(1) BY DEF L!RunSingle, L!Iter
  <1>2. Goes(loop[1]) BY <1>1 DEF LoopInv
  <1>3. CASE L!Failed(1)
    <2>1. result' = L!Broken(loop[1].error) BY <1>3 DEF L!RunSingle
    <2>2. L!Named = {} BY <1>1, <1>3 DEF L!Named
    <2> QED BY <1>1, <1>2, <1>3, <2>1, <2>2 DEF Justified, L!Broken, L!Failed, LoopInv, Goes
  <1>4. CASE ~L!Failed(1)
    <2>1. result' = [error |-> None, entities |-> loop[1].entities, stop |-> loop[1].stop,
                     billed |-> L!Billed, lists |-> L!Successful(1)]
      BY <1>4 DEF L!RunSingle
    <2>2. L!Named = IF loop[1].entities = <<>> THEN {} ELSE {1} BY <1>1, <1>4 DEF L!Named
    <2>3. L!Successful(1) = [i \in L!Named |-> loop[i].entities]
      BY <1>1, <1>4 DEF L!Successful, L!Named
    <2> QED BY <1>1, <1>2, <2>1, <2>2, <2>3 DEF Justified, LoopInv, Goes
  <1> QED BY <1>3, <1>4

\* What finalizeConsistency makes of all that was named.
LEMMA FusionIsJustified ==
    ASSUME LoopInv, iters > 1, NEW last \in L!Iter,
           \A i \in L!Iter : i <= last => L!Over(i),
           \A i \in L!Iter : i > last => loop[i].pc = "waiting",
           NEW stop \in {"consistency", "partial_consistency"},
           stop = "partial_consistency" => \E i \in L!Iter : L!Failed(i),
           stop = "consistency" => \A i \in L!Iter : L!Over(i) /\ ~L!Failed(i),
           NEW r \in L!finalizeConsistency(stop, L!Successful(last))
    PROVE  Justified(r)
  <1> DEFINE lists == L!Successful(last)
  <1>1. iters \in Nat /\ last \in 1..iters BY IterIsFinite DEF L!Iter
  <1>2. lists = [i \in L!Named |-> loop[i].entities]
    <2>1. L!Named = {j \in 1..last : ~L!Failed(j) /\ loop[j].entities # <<>>}
      <3>1. \A i \in L!Iter : i > last => loop[i].entities = <<>> BY DEF LoopInv, Goes
      <3>2. \A i \in L!Iter : i <= last \/ i > last BY <1>1 DEF L!Iter
      <3>3. \A i : i \in 1..last <=> i \in L!Iter /\ i <= last BY <1>1 DEF L!Iter
      <3> QED BY <3>1, <3>2, <3>3 DEF L!Named
    <2> QED BY <2>1 DEF L!Successful
  <1> HIDE DEF lists
  <1>3. DOMAIN lists = L!Named BY <1>2
  <1>4. CASE L!Named = {}
    <2>1. r = [error |-> None, entities |-> <<>>, lists |-> lists, stop |-> "no_finalize", billed |-> L!Billed]
      BY <1>3, <1>4 DEF L!finalizeConsistency, lists
    <2>2. AllNamed = {} BY <1>4 DEF AllNamed
    <2> DEFINE e == <<>>
    <2>3. Len(e) = 0 /\ {e[k] : k \in 1..Len(e)} = {} OBVIOUS
    <2> HIDE DEF e
    <2>4. Fused(e) BY <2>2, <2>3, FS_EmptySet DEF Fused
    <2> QED BY <1>1, <1>2, <1>4, <2>1, <2>4 DEF Justified, LoopInv, e
  <1>5. CASE L!Named # {}
    <2>1. PICK e \in L!aggregateByMRR(lists) :
              r = [error |-> None, entities |-> e, lists |-> lists, stop |-> stop, billed |-> L!Billed]
      BY <1>3, <1>5 DEF L!finalizeConsistency, lists
    <2> DEFINE all == UNION {{lists[i][k] : k \in 1..Len(lists[i])} : i \in DOMAIN lists}
               worth == [x \in all |-> L!score(lists, x)]
    <2>2. IsFiniteSet(DOMAIN lists)
      <3>1. L!Named \subseteq L!Iter BY DEF L!Named
      <3> QED BY <1>3, <3>1, IterIsFinite, FS_Subset
    <2>3. \A i \in DOMAIN lists : L!IsASequence(lists[i]) /\ lists[i] # <<>>
      BY <1>2 DEF L!Named, LoopInv, Goes
    <2>4. Best(e, all, worth) BY <1>3, <1>5, <2>1, <2>2, <2>3, AggregateIsBest
    <2>5. all = AllNamed BY <1>2 DEF AllNamed, L!NamedBy
    <2> HIDE DEF all
    <2>6. ASSUME NEW k \in 1..Len(e), NEW x \in all \ {e[j] : j \in 1..k}
          PROVE  L!MRR(e[k]) >= L!MRR(x)
      <3>1. worth[e[k]] >= worth[x] /\ e[k] \in all BY <2>4 DEF Best
      <3>2. L!score(lists, e[k]) = L!MRR(e[k]) /\ L!score(lists, x) = L!MRR(x) BY <1>2, ScoreIsMRR
      <3> QED BY <3>1, <3>2
    <2>7. r.entities = e /\ r.error = None /\ r.stop = stop /\ r.billed = received /\ r.lists = lists
      BY <2>1 DEF LoopInv
    <2>8. e # <<>> /\ Fused(e) BY <2>4, <2>5, <2>6 DEF Best, Fused
    <2>9. r.lists = [i \in L!Named |-> loop[i].entities] BY <1>2, <2>7
    <2>10. r.entities # <<>> /\ Fused(r.entities) BY <2>7, <2>8
    <2>11. /\ r.stop = "partial_consistency" => \E i \in L!Iter : L!Failed(i)
           /\ r.stop = "consistency" => \A i \in L!Iter : L!Over(i) /\ ~L!Failed(i)
      BY <2>7
    <2>12. r.billed = received /\ r.error = None /\ iters # 1 BY <1>1, <2>7
    <2> QED BY <1>5, <2>9, <2>10, <2>11, <2>12 DEF Justified
  <1> QED BY <1>4, <1>5

\* Serial iterations: those after the last that ran named nothing.
LEMMA SerialIsJustified ==
    ASSUME LoopInv, L!runWithConsistencySerial
    PROVE  Justified(result')
  <1>1. PICK last \in L!Iter :
            /\ L!Over(last) /\ \A j \in 1..(last - 1) : L!Over(j) /\ ~L!Failed(j)
            /\ L!Failed(last) \/ last = iters
            /\ IF L!Failed(last) /\ last = 1 THEN result' = L!Broken(loop[1].error)
               ELSE result' \in L!finalizeConsistency(
                      IF L!Failed(last) THEN "partial_consistency" ELSE "consistency", L!Successful(last))
    BY DEF L!runWithConsistencySerial
  <1>2. iters \in Nat /\ L!Iter = 1..iters /\ iters > 1 /\ ~parallel
    BY IterIsFinite DEF L!Iter, L!runWithConsistencySerial
  <1>3. \A i \in L!Iter : i <= last => L!Over(i)
    <2>1. \A i \in L!Iter : i <= last => i = last \/ i \in 1..(last - 1) BY <1>2
    <2> QED BY <1>1, <2>1
  <1>4. \A i \in L!Iter : i > last => loop[i].pc = "waiting"
    <2> SUFFICES ASSUME NEW i \in L!Iter, i > last, loop[i].pc # "waiting" PROVE FALSE OBVIOUS
    <2>1. ~L!Failed(last) BY <1>2 DEF LoopInv, OneAfterAnother
    <2> QED BY <1>1, <1>2, <2>1
  <1>5. CASE L!Failed(last) /\ last = 1
    <2>1. L!Named = {}
      <3>1. \A i \in L!Iter : i = 1 \/ i > 1 BY <1>2
      <3> QED BY <1>4, <1>5, <3>1 DEF L!Named, L!Over
    <2>2. result' = L!Broken(loop[1].error) BY <1>1, <1>5
    <2>3. 1 \in L!Iter /\ L!Failed(1) BY <1>2, <1>5
    <2> QED BY <2>1, <2>2, <2>3 DEF Justified, L!Broken, L!Failed, LoopInv
  <1>6. CASE ~(L!Failed(last) /\ last = 1)
    <2> DEFINE stop == IF L!Failed(last) THEN "partial_consistency" ELSE "consistency"
    <2>1. result' \in L!finalizeConsistency(stop, L!Successful(last)) BY <1>1, <1>6
    <2>2. stop = "consistency" => \A i \in L!Iter : L!Over(i) /\ ~L!Failed(i)
      <3>1. \A i \in L!Iter : last = iters => i = last \/ i \in 1..(last - 1) BY <1>2
      <3> QED BY <1>1, <3>1
    <2>3. stop = "partial_consistency" => \E i \in L!Iter : L!Failed(i) OBVIOUS
    <2>4. stop \in {"consistency", "partial_consistency"} OBVIOUS
    <2> HIDE DEF stop
    <2> QED BY <1>2, <1>3, <1>4, <2>1, <2>2, <2>3, <2>4, FusionIsJustified
  <1> QED BY <1>5, <1>6

\* Parallel iterations: all are over.
LEMMA ParallelIsJustified ==
    ASSUME LoopInv, L!runWithConsistencyParallel
    PROVE  Justified(result')
  <1> DEFINE failed == {i \in L!Iter : L!Failed(i)}
             first == CHOOSE i \in failed : \A j \in failed : i <= j
             stop == IF failed # {} THEN "partial_consistency" ELSE "consistency"
  <1>1. iters \in Nat /\ L!Iter = 1..iters /\ iters > 1 /\ iters \in L!Iter
    BY IterIsFinite DEF L!Iter, L!runWithConsistencyParallel
  <1>2. \A i \in L!Iter : L!Over(i) BY DEF L!runWithConsistencyParallel
  <1>3. CASE DOMAIN L!Successful(iters) = {} /\ failed # {}
    <2>1. result' = L!Broken(loop[first].error) BY <1>3 DEF L!runWithConsistencyParallel
    <2>2. L!Named = {} BY <1>1, <1>3 DEF L!Named, L!Successful
    <2>3. first \in failed
      <3>1. \E i \in failed : \A j \in failed : i <= j
        <4>1. failed \in SUBSET Nat BY <1>1
        <4> HIDE DEF failed
        <4> QED BY <1>3, <4>1, LeastNat
      <3> HIDE DEF failed
      <3> QED BY <3>1
    <2> HIDE DEF first
    <2> QED BY <2>1, <2>2, <2>3 DEF Justified, L!Broken, L!Failed, LoopInv
  <1>4. CASE ~(DOMAIN L!Successful(iters) = {} /\ failed # {})
    <2>1. result' \in L!finalizeConsistency(stop, L!Successful(iters))
      BY <1>4 DEF L!runWithConsistencyParallel
    <2>2. stop = "consistency" => \A i \in L!Iter : L!Over(i) /\ ~L!Failed(i) BY <1>2
    <2>3. stop = "partial_consistency" => \E i \in L!Iter : L!Failed(i) OBVIOUS
    <2>4. stop \in {"consistency", "partial_consistency"} OBVIOUS
    <2>5. \A i \in L!Iter : i > iters => loop[i].pc = "waiting" BY <1>1
    <2> HIDE DEF stop
    <2> QED BY <1>1, <1>2, <2>1, <2>2, <2>3, <2>4, <2>5, FusionIsJustified
  <1> QED BY <1>3, <1>4

\* That a result is justified rests on the iterations only.
LEMMA StaysJustified ==
    ASSUME UNCHANGED <<iters, loop, received>>, Justified(result')
    PROVE  Justified(result)'
  <1>1. /\ L!Iter' = L!Iter /\ L!Named' = L!Named
        /\ \A i : L!Over(i)' = L!Over(i) /\ L!Failed(i)' = L!Failed(i) /\ L!NamedBy(i)' = L!NamedBy(i)
    BY DEF L!Iter, L!Named, L!Over, L!Failed, L!NamedBy
  <1>2. \A e : L!MRR(e)' = L!MRR(e) BY <1>1 DEF L!MRR
  <1>3. AllNamed' = AllNamed BY <1>1 DEF AllNamed
  <1>4. Fused(result.entities)' <=> Fused(result'.entities) BY <1>2, <1>3 DEF Fused
  <1>5. [i \in L!Named |-> loop[i].entities]' = [i \in L!Named |-> loop[i].entities] BY <1>1
  <1> QED BY <1>1, <1>4, <1>5 DEF Justified

\* Whichever way Run returns, what it returns is justified.
LEMMA RunIsJustified ==
    ASSUME LoopInv, L!Run
    PROVE  AnswerInv'
  <1>1. Justified(result')
    BY SingleIsJustified, SerialIsJustified, ParallelIsJustified DEF L!Run
  <1>2. UNCHANGED <<iters, parallel, loop, received>> BY DEF L!Run
  <1>3. Justified(result)' BY <1>1, <1>2, StaysJustified
  <1>5. \A i \in L!Iter : loop[i].pc \in {"waiting", "over"}
    <2>1. CASE L!RunSingle BY <2>1 DEF L!RunSingle, L!Iter, L!Over
    <2>2. CASE L!runWithConsistencyParallel BY <2>2 DEF L!runWithConsistencyParallel, L!Over
    <2>3. CASE L!runWithConsistencySerial
      <3>1. PICK last \in L!Iter :
                /\ L!Over(last) /\ \A j \in 1..(last - 1) : L!Over(j) /\ ~L!Failed(j)
                /\ L!Failed(last) \/ last = iters
        BY <2>3 DEF L!runWithConsistencySerial
      <3>2. iters \in Nat /\ L!Iter = 1..iters /\ ~parallel
        BY <2>3, IterIsFinite DEF L!Iter, L!runWithConsistencySerial
      <3>3. ASSUME NEW i \in L!Iter, loop[i].pc # "waiting" PROVE L!Over(i)
        <4>1. i <= last
          <5>1. i > last => ~L!Failed(last) BY <3>2, <3>3 DEF LoopInv, OneAfterAnother
          <5> QED BY <3>1, <3>2, <3>3, <5>1
        <4>2. i = last \/ i \in 1..(last - 1) BY <3>2, <4>1
        <4> QED BY <3>1, <4>2
      <3> QED BY <3>3 DEF L!Over
    <2> QED BY <2>1, <2>2, <2>3 DEF L!Run
  <1>6. LoopInv'
    BY <1>2, <1>5 DEF LoopInv, OneAfterAnother, L!Iter, L!Over, L!Failed, L!Billed
  <1> QED BY <1>3, <1>6 DEF AnswerInv

\* No step spoils what has been returned: an iteration under way means that
\* nothing has.
LEMMA AnswerStep == AnswerInv /\ [L!Next]_(L!agentVars) => AnswerInv'
  <1> SUFFICES ASSUME AnswerInv, [L!Next]_(L!agentVars) PROVE AnswerInv' OBVIOUS
  <1> USE DEF Fields, FieldNames
  <1>0. LoopInv BY DEF AnswerInv
  <1>1. ASSUME LoopInv', result = None, UNCHANGED result PROVE AnswerInv' BY <1>1 DEF AnswerInv
  <1>2. ASSUME NEW i \in L!Iter, loop[i].pc \in {"rewriting", "asking"}
        PROVE  /\ result = None /\ Goes(loop[i]) /\ Fields(loop[i])
               /\ loop[i].error = None /\ loop[i].entities = <<>>
    BY <1>0, <1>2 DEF LoopInv, Goes
  <1>3. ASSUME NEW i \in L!Iter, L!runOnce(i) PROVE AnswerInv'
    <2>1. PICK first \in {"rewriting", "asking"} : loop' = [loop EXCEPT ![i].pc = first]
      BY <1>3 DEF L!runOnce
    <2>2. loop[i].pc = "waiting" /\ Goes(loop[i]) BY <1>0, <1>3 DEF L!runOnce, L!MayStart, LoopInv
    <2> DEFINE next == [loop[i] EXCEPT !.pc = first]
    <2>3. /\ Fields(next) /\ next.pc = first /\ next.billed = loop[i].billed
          /\ next.entities = loop[i].entities /\ next.error = loop[i].error /\ next.stop = loop[i].stop
      BY <2>2 DEF Goes
    <2>4. loop' = [loop EXCEPT ![i] = next] BY <2>1
    <2> HIDE DEF next
    <2>5. Goes(next) BY <2>2, <2>3 DEF Goes
    <2>6. LoopInv' BY <1>0, <1>3, <2>2, <2>3, <2>4, <2>5, LoopGoes DEF L!runOnce, L!MayStart
    <2> QED BY <1>1, <1>3, <2>6 DEF L!runOnce
  <1>4. ASSUME NEW i \in L!Iter, L!CreateMessageAgain(i) PROVE AnswerInv'
    <2>1. loop[i].pc \in {"rewriting", "asking"} BY <1>4 DEF L!CreateMessageAgain
    <2>2. result = None /\ Goes(loop[i]) BY <1>2, <2>1
    <2> DEFINE next == [loop[i] EXCEPT !.attempt = @ + 1]
    <2>3. /\ Fields(next) /\ next.pc = loop[i].pc /\ next.billed = loop[i].billed
          /\ next.entities = loop[i].entities /\ next.error = loop[i].error /\ next.stop = loop[i].stop
      BY <2>2 DEF Goes
    <2>4. loop' = [loop EXCEPT ![i] = next] BY <1>4 DEF L!CreateMessageAgain
    <2> HIDE DEF next
    <2>5. Goes(next) BY <2>2, <2>3 DEF Goes
    <2>6. LoopInv' BY <1>0, <1>4, <2>1, <2>2, <2>3, <2>4, <2>5, LoopGoes DEF L!CreateMessageAgain
    <2> QED BY <1>1, <1>4, <2>2, <2>6 DEF L!CreateMessageAgain
  <1>5. ASSUME NEW i \in L!Iter, L!CreateMessageFails(i) PROVE AnswerInv'
    <2>1. loop[i].pc \in {"rewriting", "asking"} BY <1>5 DEF L!CreateMessageFails
    <2>2. result = None /\ Goes(loop[i]) /\ loop[i].error = None /\ loop[i].entities = <<>> BY <1>2, <2>1
    <2>3. PICK e : loop' = [loop EXCEPT ![i] =
                              IF loop[i].pc = "rewriting"
                              THEN [loop[i] EXCEPT !.pc = "asking", !.attempt = 0]
                              ELSE [loop[i] EXCEPT !.pc = "over", !.stop = "error", !.error = e]]
      BY <1>5 DEF L!CreateMessageFails
    <2> DEFINE next == IF loop[i].pc = "rewriting"
                       THEN [loop[i] EXCEPT !.pc = "asking", !.attempt = 0]
                       ELSE [loop[i] EXCEPT !.pc = "over", !.stop = "error", !.error = e]
    <2>4. /\ Fields(next) /\ next.billed = loop[i].billed /\ next.entities = loop[i].entities
          /\ \/ next.pc = "asking" /\ next.error = loop[i].error /\ next.stop = loop[i].stop
             \/ next.pc = "over" /\ next.stop = "error"
      BY <2>2 DEF Goes
    <2>5. loop' = [loop EXCEPT ![i] = next] BY <2>3
    <2> HIDE DEF next
    <2>6. Goes(next) BY <2>2, <2>4 DEF Goes
    <2>7. LoopInv' BY <1>0, <1>5, <2>1, <2>2, <2>4, <2>5, <2>6, LoopGoes DEF L!CreateMessageFails
    <2> QED BY <1>1, <1>5, <2>2, <2>7 DEF L!CreateMessageFails
  <1>6. ASSUME NEW i \in L!Iter, L!RewriteIssue(i) PROVE AnswerInv'
    <2>1. loop[i].pc \in {"rewriting", "asking"} BY <1>6 DEF L!RewriteIssue
    <2>2. result = None /\ Goes(loop[i]) /\ loop[i].billed \in Nat BY <1>2, <2>1 DEF Goes
    <2> DEFINE next == [loop[i] EXCEPT !.pc = "asking", !.attempt = 0, !.billed = @ + 1]
    <2>3. /\ Fields(next) /\ next.pc = "asking" /\ next.billed = loop[i].billed + 1
          /\ next.entities = loop[i].entities /\ next.error = loop[i].error /\ next.stop = loop[i].stop
      BY <2>2 DEF Goes
    <2>4. loop' = [loop EXCEPT ![i] = next] BY <1>6 DEF L!RewriteIssue
    <2> HIDE DEF next
    <2>5. Goes(next) BY <1>2, <2>1, <2>2, <2>3 DEF Goes
    <2>6. LoopInv' BY <1>0, <1>6, <2>1, <2>2, <2>3, <2>4, <2>5, LoopGoes DEF L!RewriteIssue
    <2> QED BY <1>1, <1>6, <2>2, <2>6 DEF L!RewriteIssue
  <1>7. ASSUME NEW i \in L!Iter, L!Turn(i) PROVE AnswerInv'
    <2>1. loop[i].pc = "asking" /\ UNCHANGED <<iters, parallel, aborted, result>> /\ received' = received + 1
      BY <1>7 DEF L!Turn
    <2>2. result = None /\ Goes(loop[i]) BY <1>2, <2>1
    <2>3. PICK reply \in Replies(iters) : loop' = [loop EXCEPT ![i] = L!Answered(loop[i], reply)]
      BY <1>7 DEF L!Turn
    <2>4. /\ L!IsASequence(reply.blocks)
          /\ \A k \in DOMAIN reply.blocks : L!IsASequence(reply.blocks[k].entities)
      BY <1>0, <2>3, OperationsAssumption DEF L!AgentAssumption, LoopInv
    <2> DEFINE next == L!Answered(loop[i], reply)
    <2>5. Goes(next) /\ next.billed = loop[i].billed + 1 BY <2>1, <2>2, <2>4, AnsweredGoes
    <2> HIDE DEF next
    <2>6. loop' = [loop EXCEPT ![i] = next] BY <2>3 DEF next
    <2>7. LoopInv' BY <1>0, <2>1, <2>2, <2>5, <2>6, LoopGoes
    <2> QED BY <1>1, <2>1, <2>2, <2>7
  <1>8. ASSUME L!Cancel PROVE AnswerInv'
    <2>1. UNCHANGED <<iters, parallel, loop, received, result>> BY <1>8 DEF L!Cancel
    <2>2. LoopInv' BY <1>0, <2>1 DEF LoopInv, OneAfterAnother, L!Iter, L!Over, L!Failed, L!Billed
    <2> QED BY <1>1, <1>8, <2>2 DEF L!Cancel
  <1>9. ASSUME UNCHANGED L!agentVars PROVE AnswerInv'
    <2>1. UNCHANGED <<iters, parallel, loop, received, result>> BY <1>9 DEF L!agentVars
    <2>2. LoopInv' BY <1>0, <2>1 DEF LoopInv, OneAfterAnother, L!Iter, L!Over, L!Failed, L!Billed
    <2>3. Justified(result') => Justified(result)' BY <2>1, StaysJustified
    <2> QED BY <2>1, <2>2, <2>3 DEF AnswerInv
  <1> QED BY <1>0, <1>3, <1>4, <1>5, <1>6, <1>7, <1>8, <1>9, RunIsJustified DEF L!Next

\* What Run returns is what its iterations named, ranked by mean reciprocal rank,
\* with every reply billed, whatever the remote model replies, fails to reply or
\* is cancelled in, for any number of iterations, turns and attempts.
THEOREM AnswersJustified == L!Spec => []AnswerIsJustified
  <1>1. L!Init => AnswerInv
    <2>1. L!Init => result = None BY DEF L!Init
    <2> QED BY <2>1, LoopStarts DEF AnswerInv
  <1> QED BY <1>1, AnswerStep, InvJustifies, PTL DEF L!Spec
=============================================================================
