---------------------------- MODULE MCOperations ----------------------------
(* What crashes may leave behind, for TLC: bulk writes of a database, and the *)
(* commands that move files beside the server -- artifacts, self-update,      *)
(* migration --, and the calls of code_localize_agent, which crash into       *)
(* errors.  They share nothing here: a behaviour is one of the five.  One     *)
(* artifact is written, unless it is damaged, and imported any number of      *)
(* times: an import reads it through one handle, whatever takes its place.    *)
EXTENDS BulkWrite, TLC

Processes == Permutations(Proc)   \* processes are interchangeable

CONSTANTS MaxRevision, MaxDirt, None, Version, Current, MaxUpdates, NoFile,
          Legacy, NoTarget, MaxStarts, Replies(_), MaxIters, MaxTurns, MaxAttempts, TopK, Unit

MCCurrent == [base |-> 1, pre |-> 1]
MCVersion == {[base |-> b, pre |-> p] : b \in 1..2, p \in 0..1}

VARIABLES
    subject,
    tree, source, indexing, overlooked, export, artifact, image, imageJournal, import, overlap,
    published, binary, tmp, bak, update, updates, previous, flawed,
    legacy, backup, target, mpc, todo, current, counted, starts, hurt,
    iters, parallel, loop, aborted, received, result

\* Lists of entities that the remote model may submit: with one it names twice,
\* and one that is longer than TopK.
Lists == {<<>>, <<1>>, <<2>>, <<2, 1>>, <<1, 3>>, <<2, 2>>, <<3, 2, 1>>}

\* What the model may reply.  One iteration: up to two blocks of any kind.
\* Several: a list, a tool call, or text without a call.
AgentReplies(n) ==
    LET blocks == {[kind |-> k, entities |-> <<>>] : k \in {"text", "tool"}}
                  \cup {[kind |-> "finalize", entities |-> l] : l \in Lists}
    IN  IF n = 1 THEN [blocks : {<<>>} \cup {<<b>> : b \in blocks} \cup blocks \X blocks,
                       stop : {"end_turn", "tool_use"}]
        ELSE {[blocks |-> <<b>>, stop |-> "end_turn"] :
                 b \in {c \in blocks : IF c.kind = "finalize" THEN c.entities # <<>>
                                       ELSE c.kind = IF n = 2 THEN "tool" ELSE "text"}}

A == INSTANCE Artifacts WITH journal <- imageJournal
U == INSTANCE SelfUpdate
M == INSTANCE Migration
L == INSTANCE LocAgent WITH cancelled <- aborted

ASSUME OperationsAssumption ==
    /\ A!ArtifactsAssumption
    /\ U!UpdateAssumption
    /\ M!MigrationAssumption
    /\ L!AgentAssumption

artifacts == <<tree, source, indexing, overlooked, export, artifact, image, imageJournal, import, overlap>>
selfUpdate == <<published, binary, tmp, bak, update, updates, previous, flawed>>
migration == <<legacy, backup, target, mpc, todo, current, counted, starts, hurt>>
agent == <<iters, parallel, loop, aborted, received, result>>
commands == <<artifacts, selfUpdate, migration, agent>>
allVars == <<subject, vars, commands>>

OpsInit ==
    /\ subject \in {"bulk", "artifacts", "update", "migration", "agent"}
    /\ Init /\ A!Init /\ U!Init /\ M!Init /\ L!Init
    /\ IF subject = "agent" THEN image = None ELSE iters = 1

OpsNext ==
    \/ subject = "bulk" /\ Next /\ UNCHANGED <<subject, commands>>
    \/ /\ subject = "artifacts"
       /\ (A!ExporterNext /\ ~artifact.whole /\ import.pc = "idle") \/ A!ImporterNext
       /\ UNCHANGED <<subject, vars, selfUpdate, migration, agent>>
    \/ /\ subject = "update" /\ U!Next
       /\ UNCHANGED <<subject, vars, artifacts, migration, agent>>
    \/ /\ subject = "migration" /\ M!Next
       /\ UNCHANGED <<subject, vars, artifacts, selfUpdate, agent>>
    \/ /\ subject = "agent" /\ L!Next
       /\ UNCHANGED <<subject, vars, artifacts, selfUpdate, migration>>

OpsSpec == OpsInit /\ [][OpsNext]_allVars

-----------------------------------------------------------------------------
\* An import that is reported as coherent is of the importer's own tree.
CoherentImportIsExact == A!CoherentImportIsExact

\* An image never meets the journal of another.
ImageHasItsOwnJournal == A!ImageHasItsOwnJournal

\* An update leaves the old binary or a newer one that starts.
UpdateKeepsABinary == U!UpdateKeepsABinary

\* The legacy database goes when its projects have been copied or given up.
PutAwayWhenMigrated == M!PutAwayWhenMigrated

\* Every tool call of the remote model has its result in the next request.
CallsAreAnswered == L!CallsAreAnswered

\* What code_localize_agent returns is what its iterations found.
AnswerIsJustified == L!AnswerIsJustified
=============================================================================
