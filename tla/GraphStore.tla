---------------------------- MODULE GraphStore -----------------------------
(* The tables of one database (store/nodes.go, edges.go, projects.go,       *)
(* embeddings.go) and a writer that goes on using the node ids it was given *)
(* while other statements change the tables: a batch of edges is one        *)
(* statement per chunk, and one per row once its chunk has failed.          *)
(*                                                                          *)
(* Lines and properties are left out.  meant, of a row and of an edge,      *)
(* remembers which names the ids stood for when the writer was given them;  *)
(* no code reads it.                                                        *)
EXTENDS Integers, Sequences, FiniteSets

CONSTANTS
    Project, QN, Label, File, Type,
    None,           \* no id, no batch
    MaxId,          \* bound: node ids in one behaviour
    Chunk,          \* edgesBatchSize, 199 in the code
    Shapes          \* the batches a writer inserts: sequences of <<name, name, type>>

ASSUME IdsAndChunks == MaxId \in Nat /\ Chunk \in Nat \ {0}
ASSUME ShapesAreBatches == Shapes \subseteq Seq(QN \X QN \X Type)

VARIABLES
    projects,       \* the rows of projects
    node,           \* id -> row of nodes
    lastId,         \* sqlite_sequence: the largest id ever given
    edge,           \* <<source, target, type>> -> row of edges
    embedded,       \* the node ids of node_embeddings
    held,           \* the ids the writer holds: a project, and QN -> id
    batch           \* the batch of edges being inserted
vars == <<projects, node, lastId, edge, embedded, held, batch>>

Ids == 1..MaxId
Row == [project : Project, qn : QN, label : Label, file : File]
EdgeKeys == Ids \X Ids \X Type
Nodes(project) == {n \in DOMAIN node : node[n].project = project}
IdOf(project, qn) ==
    LET found == {n \in Nodes(project) : node[n].qn = qn}
    IN  IF found = {} THEN None ELSE CHOOSE n \in found : TRUE
Keep(f, S) == [x \in DOMAIN f \cap S |-> f[x]]

-----------------------------------------------------------------------------
(* Deleting a node takes its edges and its embedding with it.               *)

\* Without foreign keys nothing but the nodes goes.
DeleteNodesUnlinked(gone) ==
    /\ node' = Keep(node, Ids \ gone)
    /\ UNCHANGED <<lastId, edge, embedded, held, batch>>
DeleteNodes(gone) ==
    /\ node' = Keep(node, Ids \ gone)
    /\ edge' = Keep(edge, {k \in EdgeKeys : k[1] \notin gone /\ k[2] \notin gone})
    /\ embedded' = embedded \ gone
    /\ UNCHANGED <<lastId, held, batch>>
DeleteEdges(gone) ==
    /\ edge' = Keep(edge, EdgeKeys \ gone)
    /\ UNCHANGED <<projects, node, lastId, embedded, held, batch>>

UpsertProject(p) ==
    /\ projects' = projects \cup {p}
    /\ UNCHANGED <<node, lastId, edge, embedded, held, batch>>
DeleteProject(p) ==
    /\ p \in projects /\ projects' = projects \ {p}
    /\ DeleteNodes(Nodes(p))

DeleteNodesByProject(p) == DeleteNodes(Nodes(p)) /\ UNCHANGED projects
DeleteNodesByFile(p, f) ==
    /\ DeleteNodes({n \in Nodes(p) : node[n].file = f})
    /\ UNCHANGED projects
DeleteNodesByLabel(p, l) ==
    /\ DeleteNodes({n \in Nodes(p) : node[n].label = l})
    /\ UNCHANGED projects
DeleteOrphanNodesByLabel(p, l) ==
    /\ DeleteNodes({n \in Nodes(p) : /\ node[n].label = l
                                     /\ ~\E k \in DOMAIN edge : /\ edge[k].project = p
                                                                /\ n \in {k[1], k[2]}})
    /\ UNCHANGED projects

EdgesOf(p) == {k \in DOMAIN edge : edge[k].project = p}
DeleteEdgesByProject(p) == DeleteEdges(EdgesOf(p))
DeleteEdgesByType(p, t) == DeleteEdges({k \in EdgesOf(p) : k[3] = t})
DeleteEdgesBySourceFile(p, f, t) ==
    DeleteEdges({k \in EdgesOf(p) : k[3] = t /\ node[k[1]].file = f})
\* Chunks of both lists; together they cover every pair of files.
DeleteEdgesBetweenFiles(p, t, from, to) ==
    DeleteEdges({k \in EdgesOf(p) : /\ k[3] = t /\ node[k[1]].file \in from
                                    /\ node[k[2]].file \in to
                                    /\ {k[1], k[2]} \subseteq Nodes(p)})

-----------------------------------------------------------------------------
(* Nodes.  A row that meets (project, qualified_name) keeps its id; a new   *)
(* one gets an id that was never used.                                      *)

\* The smallest free id, as without AUTOINCREMENT.
NextIdReused ==
    IF DOMAIN node = Ids THEN MaxId + 1
    ELSE CHOOSE n \in Ids \ DOMAIN node : \A i \in Ids \ DOMAIN node : n <= i
NextId == lastId + 1

\* One row: a chunk of rows is as many, in order.
UpsertNode(row) ==
    LET old == IdOf(row.project, row.qn)
        id == IF old = None THEN NextId ELSE old
    IN  /\ row.project \in projects /\ id \in Ids
        /\ node' = [n \in DOMAIN node \cup {id} |-> IF n = id THEN row ELSE node[n]]
        /\ lastId' = IF id > lastId THEN id ELSE lastId
        /\ UNCHANGED <<projects, edge, embedded, held, batch>>

\* What UpsertNodeBatch and FindNodeIDsByQNs hand back.
FindNodeIDsByQNs(p) ==
    /\ batch = None
    /\ held' = [project |-> p, id |-> [q \in QN |-> IdOf(p, q)]]
    /\ UNCHANGED <<projects, node, lastId, edge, embedded, batch>>

\* Row by row; the first that fails ends the batch.
UpsertEmbeddingBatch ==
    /\ \E q \in QN : held.id[q] \in DOMAIN node /\ embedded' = embedded \cup {held.id[q]}
    /\ UNCHANGED <<projects, node, lastId, edge, held, batch>>

-----------------------------------------------------------------------------
(* Edges.  A row: the ends the writer holds for two names.                  *)

Key(r) == <<r.src, r.tgt, r.type>>
Stale(r) == r.src \notin DOMAIN node \/ r.tgt \notin DOMAIN node \/ r.project \notin projects

\* The edges after the rows were inserted; a row whose key is there merges its
\* properties into it.
Merged(rows) ==
    LET of(k) == {i \in DOMAIN rows : Key(rows[i]) = k}
        old(k) == IF k \in DOMAIN edge THEN edge[k].meant ELSE {}
    IN  [k \in DOMAIN edge \cup {Key(rows[i]) : i \in DOMAIN rows} |->
           IF of(k) = {} THEN edge[k]
           ELSE [project |-> IF k \in DOMAIN edge THEN edge[k].project
                             ELSE rows[CHOOSE i \in of(k) : TRUE].project,
                 meant |-> {rows[i].meant : i \in of(k)} \cup old(k)]]

InsertEdge(r) ==
    /\ ~Stale(r)
    /\ edge' = Merged(<<r>>)
    /\ UNCHANGED <<projects, node, lastId, embedded, held, batch>>

\* The row for two names the writer holds ids for.
RowOf(a, b, t) ==
    [project |-> held.project, src |-> held.id[a], tgt |-> held.id[b], type |-> t, meant |-> <<a, b>>]
Holds(a, b) == None \notin {held.id[a], held.id[b]}

\* lost is what the properties look at; the code counts.
InsertEdgeBatch(shape) ==
    /\ batch = None
    /\ \A i \in DOMAIN shape : Holds(shape[i][1], shape[i][2])
    /\ batch' = [rows |-> [i \in DOMAIN shape |-> RowOf(shape[i][1], shape[i][2], shape[i][3])], next |-> 1, single |-> 0, dropped |-> 0, lost |-> {}]
    /\ UNCHANGED <<projects, node, lastId, edge, embedded, held>>

ChunkEnd == IF batch.next + Chunk - 1 < Len(batch.rows) THEN batch.next + Chunk - 1
            ELSE Len(batch.rows)

\* A chunk that fails is given up.
insertEdgeChunkWhole ==
    /\ batch # None /\ batch.single = 0 /\ batch.next <= Len(batch.rows)
    /\ LET rows == SubSeq(batch.rows, batch.next, ChunkEnd)
       IN  IF \E i \in DOMAIN rows : Stale(rows[i])
             THEN /\ batch' = [batch EXCEPT !.next = ChunkEnd + 1, !.dropped = @ + Len(rows),
                                            !.lost = @ \cup (batch.next..ChunkEnd)]
                  /\ UNCHANGED edge
             ELSE batch' = [batch EXCEPT !.next = ChunkEnd + 1] /\ edge' = Merged(rows)
    /\ UNCHANGED <<projects, node, lastId, embedded, held>>

\* The chunk as one statement: all its rows, or none and row by row.
insertEdgeChunk ==
    /\ batch # None /\ batch.single = 0 /\ batch.next <= Len(batch.rows)
    /\ LET rows == SubSeq(batch.rows, batch.next, ChunkEnd)
       IN  IF \E i \in DOMAIN rows : Stale(rows[i])
             THEN batch' = [batch EXCEPT !.single = ChunkEnd] /\ UNCHANGED edge
             ELSE batch' = [batch EXCEPT !.next = ChunkEnd + 1] /\ edge' = Merged(rows)
    /\ UNCHANGED <<projects, node, lastId, embedded, held>>

\* A row of a failed chunk, a statement of its own.
InsertRow ==
    /\ batch # None /\ batch.single # 0
    /\ LET r == batch.rows[batch.next]
           left == [batch EXCEPT !.next = @ + 1, !.single = IF batch.next = @ THEN 0 ELSE @]
       IN  IF Stale(r)
             THEN /\ batch' = [left EXCEPT !.dropped = @ + 1, !.lost = @ \cup {batch.next}]
                  /\ UNCHANGED edge
             ELSE batch' = left /\ edge' = Merged(<<r>>)
    /\ UNCHANGED <<projects, node, lastId, embedded, held>>

\* nil, or PartialBatchInsertError with what was dropped.
BatchDone ==
    /\ batch # None /\ batch.single = 0 /\ batch.next > Len(batch.rows)
    /\ batch' = None
    /\ UNCHANGED <<projects, node, lastId, edge, embedded, held>>

-----------------------------------------------------------------------------
Init ==
    /\ projects = Project /\ node = << >> /\ lastId = 0 /\ edge = << >>
    /\ embedded = {} /\ batch = None
    /\ held \in [project : Project, id : {[q \in QN |-> None]}]

Next ==
    \/ \E p \in Project : \/ UpsertProject(p) \/ DeleteProject(p) \/ DeleteNodesByProject(p)
                          \/ DeleteEdgesByProject(p) \/ FindNodeIDsByQNs(p)
    \/ \E p \in Project, f \in File : DeleteNodesByFile(p, f)
    \/ \E p \in Project, l \in Label : DeleteNodesByLabel(p, l) \/ DeleteOrphanNodesByLabel(p, l)
    \/ \E p \in Project, t \in Type : DeleteEdgesByType(p, t)
    \/ \E p \in Project, t \in Type, f \in File : DeleteEdgesBySourceFile(p, f, t)
    \/ \E p \in Project, t \in Type, from \in SUBSET File, to \in SUBSET File :
         DeleteEdgesBetweenFiles(p, t, from, to)
    \/ \E row \in Row : UpsertNode(row)
    \/ \E a, b \in QN, t \in Type : Holds(a, b) /\ InsertEdge(RowOf(a, b, t))
    \/ \E shape \in Shapes : InsertEdgeBatch(shape)
    \/ UpsertEmbeddingBatch \/ insertEdgeChunk \/ InsertRow \/ BatchDone

Spec == Init /\ [][Next]_vars

-----------------------------------------------------------------------------
TypeOK ==
    /\ projects \subseteq Project /\ lastId \in 0..MaxId
    /\ DOMAIN node \subseteq Ids /\ \A n \in DOMAIN node : node[n] \in Row
    /\ DOMAIN edge \subseteq EdgeKeys
    /\ \A k \in DOMAIN edge : edge[k] \in [project : Project, meant : SUBSET (QN \X QN)]
    /\ held \in [project : Project, id : [QN -> Ids \cup {None}]]

\* Every edge, and every embedding, is about nodes that exist (ON DELETE
\* CASCADE, and the rows that a statement refuses).
NothingDangles ==
    /\ \A k \in DOMAIN edge : {k[1], k[2]} \subseteq DOMAIN node
    /\ embedded \subseteq DOMAIN node
    /\ \A n \in DOMAIN node : node[n].project \in projects

\* An edge joins what the writer meant: however old the ids it was made of,
\* its ends have the names, and are in the project, they were looked up as.
EdgesJoinWhatWasMeant ==
    \A k \in DOMAIN edge : /\ edge[k].meant = {<<node[k[1]].qn, node[k[2]].qn>>}
                           /\ {node[k[1]].project, node[k[2]].project} = {edge[k].project}

\* A row of a batch is an edge once its turn has come, or it is counted as
\* lost and one of its ends is gone for good: never both, never neither.
Accounted ==
    batch # None /\ batch' # None =>
      /\ batch'.dropped = Cardinality(batch'.lost)
      /\ \A i \in batch.next..(batch'.next - 1) :
           LET r == batch.rows[i]
           IN  IF i \in batch'.lost THEN ~({r.src, r.tgt} \subseteq DOMAIN node')
               ELSE Key(r) \in DOMAIN edge'
LossIsReported == [][Accounted]_vars
=============================================================================
