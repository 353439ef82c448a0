------------------------------ MODULE Migration ------------------------------
(***************************************************************************)
(* The move from the one legacy database to a database per project, which  *)
(* every start of the server tries while the legacy file is there, and     *)
(* which a crash may cut short at any statement.  A project's data is the  *)
(* four tables that are copied, in this order.                             *)
(***************************************************************************)
EXTENDS Integers, Sequences, FiniteSets

CONSTANTS
    Legacy,      \* the projects of the legacy database
    NoTarget,
    MaxStarts    \* bound: starts of the server

\* What the code fixes or guarantees of the constants.
MigrationAssumption == MaxStarts \in Nat /\ NoTarget \notin Legacy \cup Nat

VARIABLES
    legacy,     \* codebase-memory.db is there; else it is at .migrated
    backup,     \* .backup: missing, cut short or whole
    target,     \* per project, the number of tables in its own database
    mpc,        \* where migrate is
    todo,       \* the projects its loop has not come to
    current,    \* the one that is being copied
    counted,    \* migrated: those it reports as migrated
    starts,
    hurt        \* history: projects whose copying failed or was cut short

vars == <<legacy, backup, target, mpc, todo, current, counted, starts, hurt>>

Tables == 4 \* projects, nodes, edges, file_hashes

Init ==
    /\ legacy = TRUE /\ backup = "missing" /\ target = [p \in Legacy |-> NoTarget]
    /\ mpc = "down" /\ todo = {} /\ current = NoTarget /\ counted = {} /\ starts = 0 /\ hurt = {}

\* migrate: nothing to do without the legacy file; the backup is made once.
Start ==
    /\ mpc = "down" /\ legacy /\ starts < MaxStarts
    /\ starts' = starts + 1 /\ counted' = {} /\ todo' = Legacy
    /\ \/ backup' = (IF backup = "missing" THEN "whole" ELSE backup) /\ mpc' = "loop"
       \/ backup = "missing" /\ backup' = "cut" /\ mpc' = "down"
    /\ UNCHANGED <<legacy, target, current, hurt>>

\* An existing target counts as migrated, whatever is in it.
Exists(p) ==
    /\ mpc = "loop" /\ p \in todo /\ target[p] # NoTarget
    /\ todo' = todo \ {p} /\ counted' = counted \cup {p}
    /\ UNCHANGED <<legacy, backup, target, mpc, current, starts, hurt>>

Open(p) ==
    /\ mpc = "loop" /\ p \in todo /\ target[p] = NoTarget
    /\ todo' = todo \ {p} /\ current' = p /\ mpc' = "copy"
    /\ target' = [target EXCEPT ![p] = 0]
    /\ UNCHANGED <<legacy, backup, counted, starts, hurt>>

\* INSERT OR REPLACE ... SELECT, a statement at a time and without a transaction.
Copy ==
    /\ mpc = "copy" /\ target[current] < Tables
    /\ target' = [target EXCEPT ![current] = @ + 1]
    /\ UNCHANGED <<legacy, backup, mpc, todo, current, counted, starts, hurt>>

Copied ==
    /\ mpc = "copy" /\ target[current] = Tables
    /\ counted' = counted \cup {current} /\ mpc' = "loop" /\ current' = NoTarget
    /\ UNCHANGED <<legacy, backup, target, todo, starts, hurt>>

\* A statement or a comparison of the counts fails: the loop goes on.
RestAfterStop(rest) == {}
RestAfter(rest) == rest
Failed ==
    /\ mpc = "copy"
    /\ mpc' = "loop" /\ current' = NoTarget /\ todo' = RestAfter(todo)
    /\ hurt' = hurt \cup {current}
    /\ UNCHANGED <<legacy, backup, target, counted, starts>>

renameLegacy ==
    /\ mpc = "loop" /\ todo = {}
    /\ mpc' = "down" /\ legacy' \in {FALSE, TRUE}
    /\ UNCHANGED <<backup, target, todo, current, counted, starts, hurt>>

Crash ==
    /\ mpc # "down" /\ mpc' = "down" /\ current' = NoTarget /\ todo' = {}
    /\ hurt' = IF current = NoTarget THEN hurt ELSE hurt \cup {current}
    /\ UNCHANGED <<legacy, backup, target, counted, starts>>

Next == \/ Start \/ Copy \/ Copied \/ Failed \/ renameLegacy \/ Crash
        \/ \E p \in Legacy : Exists(p) \/ Open(p)

Spec == Init /\ [][Next]_vars

-----------------------------------------------------------------------------
\* Once the legacy database is put away, each of its projects has a database of
\* its own with all its rows, but for those whose copying failed or was cut
\* short -- and these a later start still counts as migrated.
PutAwayWhenMigrated ==
    ~legacy => \A p \in Legacy : target[p] = Tables \/ p \in hurt
=============================================================================
