-------------------------- MODULE GraphStore_proof --------------------------
(***************************************************************************)
(* For any projects, names and batches: ids are never given twice, so an   *)
(* edge made of old ids joins what its writer meant or is refused; what a  *)
(* batch loses it counts.                                                  *)
(***************************************************************************)
EXTENDS GraphStore, FiniteSetTheorems, TLAPS

EdgeRow == [project : Project, src : Ids, tgt : Ids, type : Type, meant : QN \X QN]

TablesOK ==
    /\ projects \subseteq Project /\ lastId \in Nat
    /\ node = [n \in DOMAIN node |-> node[n]]
    /\ DOMAIN node \subseteq {n \in Ids : n <= lastId}
    /\ \A n \in DOMAIN node : node[n] \in Row /\ node[n].project \in projects
    /\ embedded \subseteq DOMAIN node

\* An id that was looked up for a name is of that name or of no node.
Means(project, id, q) ==
    /\ id \in Ids /\ id <= lastId
    /\ id \in DOMAIN node => node[id].qn = q /\ node[id].project = project

HeldOK ==
    /\ held.project \in Project
    /\ \A q \in QN : held.id[q] # None => Means(held.project, held.id[q], q)

RowOK(r) ==
    /\ r \in EdgeRow
    /\ Means(r.project, r.src, r.meant[1]) /\ Means(r.project, r.tgt, r.meant[2])

BatchOK ==
    batch # None =>
      /\ batch \in [rows : Seq(EdgeRow), next : Nat \ {0}, single : Nat, dropped : Nat,
                    lost : SUBSET Nat]
      /\ \A i \in DOMAIN batch.rows : RowOK(batch.rows[i])
      /\ batch.single # 0 => batch.next <= batch.single /\ batch.single \in DOMAIN batch.rows
      /\ batch.lost \subseteq 1..(batch.next - 1)
      /\ batch.dropped = Cardinality(batch.lost)

EdgeOK(k, e) ==
    /\ {k[1], k[2]} \subseteq DOMAIN node
    /\ e.meant = {<<node[k[1]].qn, node[k[2]].qn>>}
    /\ {node[k[1]].project, node[k[2]].project} = {e.project}
EdgesOK ==
    /\ edge = [k \in DOMAIN edge |-> edge[k]] /\ DOMAIN edge \subseteq EdgeKeys
    /\ \A k \in DOMAIN edge : EdgeOK(k, edge[k])

GInv == TablesOK /\ HeldOK /\ BatchOK /\ EdgesOK

USE IdsAndChunks

-----------------------------------------------------------------------------
\* Nodes that stay as they were, and no id given twice: what was looked up
\* still means the same.
LEMMA MeansStays ==
    ASSUME NEW p, NEW id, NEW q, Means(p, id, q), lastId \in Nat, lastId' \in Nat,
           lastId <= lastId',
           \A n \in DOMAIN node' : n <= lastId =>
              n \in DOMAIN node /\ node'[n].qn = node[n].qn /\ node'[n].project = node[n].project
    PROVE  Means(p, id, q)'
  BY DEF Means, Ids

LEMMA HeldStays ==
    ASSUME HeldOK, UNCHANGED held, lastId \in Nat, lastId' \in Nat, lastId <= lastId',
           \A n \in DOMAIN node' : n <= lastId =>
              n \in DOMAIN node /\ node'[n].qn = node[n].qn /\ node'[n].project = node[n].project
    PROVE  HeldOK'
<1>1. \A q \in QN : held.id[q] # None => Means(held.project, held.id[q], q)'
  BY MeansStays DEF HeldOK
<1> QED
  BY <1>1 DEF HeldOK, Means

LEMMA BatchStays ==
    ASSUME BatchOK, UNCHANGED batch, lastId \in Nat, lastId' \in Nat, lastId <= lastId',
           \A n \in DOMAIN node' : n <= lastId =>
              n \in DOMAIN node /\ node'[n].qn = node[n].qn /\ node'[n].project = node[n].project
    PROVE  BatchOK'
<1> SUFFICES ASSUME batch # None PROVE BatchOK'
  BY DEF BatchOK
<1>1. \A i \in DOMAIN batch.rows : RowOK(batch.rows[i])'
  BY MeansStays DEF BatchOK, RowOK, Means
<1> QED
  BY <1>1 DEF BatchOK, RowOK, Means

\* Deleting nodes with their edges.
LEMMA DeleteNodesOK ==
    ASSUME GInv, NEW gone, DeleteNodes(gone), projects' \subseteq projects,
           \A n \in DOMAIN node \ gone : node[n].project \in projects'
    PROVE  GInv'
<1> DEFINE kept == {k \in EdgeKeys : k[1] \notin gone /\ k[2] \notin gone}
<1>1. /\ DOMAIN node' = DOMAIN node \ gone /\ \A n \in DOMAIN node' : node'[n] = node[n]
      /\ node' = [n \in DOMAIN node' |-> node'[n]]
  BY DEF DeleteNodes, Keep, GInv, TablesOK, Ids
<1>2. /\ DOMAIN edge' = DOMAIN edge \cap kept /\ \A k \in DOMAIN edge' : edge'[k] = edge[k]
      /\ edge' = [k \in DOMAIN edge' |-> edge'[k]]
  BY DEF DeleteNodes, Keep
<1>3. lastId' = lastId /\ UNCHANGED <<held, batch>> /\ embedded' = embedded \ gone
  BY DEF DeleteNodes
<1>4. TablesOK'
  BY <1>1, <1>3 DEF GInv, TablesOK
<1>5. HeldOK'
  BY <1>1, <1>3, HeldStays DEF GInv, TablesOK
<1>6. BatchOK'
  BY <1>1, <1>3, BatchStays DEF GInv, TablesOK
<1>7. ASSUME NEW k \in DOMAIN edge' PROVE EdgeOK(k, edge[k])'
  <2>1. k \in DOMAIN edge /\ k \in kept /\ EdgeOK(k, edge[k])
    BY <1>2 DEF GInv, EdgesOK
  <2>2. k[1] \in DOMAIN node' /\ k[2] \in DOMAIN node'
    BY <2>1, <1>1 DEF EdgeOK
  <2> QED
    BY <2>1, <2>2, <1>1, <1>2 DEF EdgeOK
<1>8. EdgesOK'
  BY <1>2, <1>7 DEF GInv, EdgesOK
<1> QED
  BY <1>4, <1>5, <1>6, <1>8 DEF GInv

LEMMA DeleteEdgesOK ==
    ASSUME GInv, NEW gone, DeleteEdges(gone)
    PROVE  GInv'
<1>1. /\ DOMAIN edge' = DOMAIN edge \cap (EdgeKeys \ gone)
      /\ \A k \in DOMAIN edge' : edge'[k] = edge[k]
      /\ edge' = [k \in DOMAIN edge' |-> edge'[k]]
  BY DEF DeleteEdges, Keep
<1>2. UNCHANGED <<projects, node, lastId, embedded, held, batch>>
  BY DEF DeleteEdges
<1>3. EdgesOK'
  BY <1>1, <1>2 DEF GInv, EdgesOK, EdgeOK
<1> QED
  BY <1>2, <1>3 DEF GInv, TablesOK, HeldOK, Means, BatchOK, RowOK

\* Rows whose ends exist, inserted or merged.
LEMMA MergedOK ==
    ASSUME GInv, NEW rows \in Seq(EdgeRow), \A i \in DOMAIN rows : RowOK(rows[i]) /\ ~Stale(rows[i]),
           edge' = Merged(rows), UNCHANGED <<projects, node, lastId, embedded, held>>
    PROVE  EdgesOK' /\ \A i \in DOMAIN rows : Key(rows[i]) \in DOMAIN edge'
<1> DEFINE of(k) == {i \in DOMAIN rows : Key(rows[i]) = k}
           old(k) == IF k \in DOMAIN edge THEN edge[k].meant ELSE {}
<1>1. /\ DOMAIN edge' = DOMAIN edge \cup {Key(rows[i]) : i \in DOMAIN rows}
      /\ edge' = [k \in DOMAIN edge' |-> edge'[k]]
      /\ \A k \in DOMAIN edge' :
           edge'[k] = IF of(k) = {} THEN edge[k]
                      ELSE [project |-> IF k \in DOMAIN edge THEN edge[k].project
                                        ELSE rows[CHOOSE i \in of(k) : TRUE].project,
                            meant |-> {rows[i].meant : i \in of(k)} \cup old(k)]
  BY DEF Merged
<1>2. ASSUME NEW i \in DOMAIN rows
      PROVE  /\ Key(rows[i]) \in EdgeKeys
             /\ Key(rows[i])[1] = rows[i].src /\ Key(rows[i])[2] = rows[i].tgt
             /\ {rows[i].src, rows[i].tgt} \subseteq DOMAIN node
             /\ rows[i].meant = <<node[rows[i].src].qn, node[rows[i].tgt].qn>>
             /\ node[rows[i].src].project = rows[i].project
             /\ node[rows[i].tgt].project = rows[i].project
  <2>1. rows[i] \in EdgeRow /\ RowOK(rows[i]) /\ ~Stale(rows[i])
    BY DEF RowOK
  <2>2. Key(rows[i]) = <<rows[i].src, rows[i].tgt, rows[i].type>>
    BY DEF Key
  <2>3. rows[i].src \in Ids /\ rows[i].tgt \in Ids /\ rows[i].type \in Type /\ rows[i].meant \in QN \X QN
    BY <2>1 DEF EdgeRow
  <2>4. rows[i].src \in DOMAIN node /\ rows[i].tgt \in DOMAIN node
    BY <2>1 DEF Stale
  <2>5. /\ node[rows[i].src].qn = rows[i].meant[1] /\ node[rows[i].src].project = rows[i].project
        /\ node[rows[i].tgt].qn = rows[i].meant[2] /\ node[rows[i].tgt].project = rows[i].project
    BY <2>1, <2>4 DEF RowOK, Means
  <2>6. rows[i].meant = <<rows[i].meant[1], rows[i].meant[2]>>
    BY <2>3
  <2> QED
    BY <2>2, <2>3, <2>4, <2>5, <2>6 DEF EdgeKeys
<1>3. ASSUME NEW k \in DOMAIN edge' PROVE EdgeOK(k, edge[k])'
  <2>1. CASE of(k) = {}
    <3>1. k \in DOMAIN edge /\ edge'[k] = edge[k]
      BY <2>1, <1>1
    <3>2. EdgeOK(k, edge[k])
      BY <3>1 DEF GInv, EdgesOK
    <3> QED
      BY <3>1, <3>2 DEF EdgeOK
  <2>2. CASE of(k) # {}
    <3> DEFINE meaning == <<node[k[1]].qn, node[k[2]].qn>>
    <3>1. PICK j \in of(k) : TRUE
      BY <2>2
    <3>2. {k[1], k[2]} \subseteq DOMAIN node
      BY <3>1, <1>2
    <3>3. \A i \in of(k) : /\ rows[i].meant = meaning
                           /\ node[k[1]].project = rows[i].project
                           /\ node[k[2]].project = rows[i].project
      BY <1>2
    <3>4. k \in DOMAIN edge => /\ edge[k].meant = {meaning}
                               /\ {node[k[1]].project, node[k[2]].project} = {edge[k].project}
      BY DEF GInv, EdgesOK, EdgeOK
    <3>5. {rows[i].meant : i \in of(k)} = {meaning}
      BY <3>1, <3>3
    <3>6. /\ edge'[k].meant = {rows[i].meant : i \in of(k)} \cup old(k)
          /\ edge'[k].project = IF k \in DOMAIN edge THEN edge[k].project
                                ELSE rows[CHOOSE i \in of(k) : TRUE].project
      <4> DEFINE project == IF k \in DOMAIN edge THEN edge[k].project
                            ELSE rows[CHOOSE i \in of(k) : TRUE].project
                 meant == {rows[i].meant : i \in of(k)} \cup old(k)
      <4>1. edge'[k] = [project |-> project, meant |-> meant]
        BY <2>2, <1>1, Zenon
      <4> HIDE DEF of, old, project, meant
      <4>2. edge'[k].meant = meant /\ edge'[k].project = project
        BY <4>1
      <4> QED
        BY <4>2 DEF project, meant
    <3>7. (CHOOSE i \in of(k) : TRUE) \in of(k)
      BY <2>2
    <3>8. {node[k[1]].project, node[k[2]].project} = {edge'[k].project}
      <4>1. CASE k \in DOMAIN edge
        BY <4>1, <3>4, <3>6
      <4>2. CASE k \notin DOMAIN edge
        <5> HIDE DEF of
        <5>1. edge'[k].project = rows[CHOOSE i \in of(k) : TRUE].project
          BY <4>2, <3>6
        <5> QED
          BY <5>1, <3>3, <3>7
      <4> QED
        BY <4>1, <4>2
    <3>9. edge'[k].meant = {meaning}
      <4> HIDE DEF of
      <4> QED
        BY <3>4, <3>5, <3>6
    <3> QED
      BY <3>2, <3>8, <3>9 DEF EdgeOK
  <2> QED
    BY <2>1, <2>2
<1>4. DOMAIN edge' \subseteq EdgeKeys
  BY <1>1, <1>2 DEF GInv, EdgesOK
<1> QED
  BY <1>1, <1>3, <1>4 DEF EdgesOK

-----------------------------------------------------------------------------
LEMMA UpsertNodeOK ==
    ASSUME GInv, NEW row \in Row, UpsertNode(row)
    PROVE  GInv'
<1> DEFINE old == IdOf(row.project, row.qn)
           id == IF old = None THEN NextId ELSE old
<1>1. /\ row.project \in projects /\ id \in Ids
      /\ DOMAIN node' = DOMAIN node \cup {id} /\ node' = [n \in DOMAIN node' |-> node'[n]]
      /\ \A n \in DOMAIN node' : node'[n] = IF n = id THEN row ELSE node[n]
      /\ lastId' = IF id > lastId THEN id ELSE lastId
      /\ UNCHANGED <<projects, edge, embedded, held, batch>>
  BY DEF UpsertNode
<1>2. old # None => /\ old \in DOMAIN node /\ node[old].qn = row.qn
                    /\ node[old].project = row.project
  BY DEF IdOf, Nodes
<1>3. old = None => id = lastId + 1 /\ id \notin DOMAIN node
  BY DEF NextId, GInv, TablesOK
<1> HIDE DEF id, old
<1>4. /\ lastId \in Nat /\ lastId' \in Nat /\ lastId <= lastId' /\ id <= lastId'
      /\ id <= lastId => id \in DOMAIN node /\ node[id].qn = row.qn /\ node[id].project = row.project
  <2>1. CASE old = None
    BY <2>1, <1>1, <1>3 DEF GInv, TablesOK, Ids
  <2>2. CASE old # None
    <3>1. id = old
      BY <2>2 DEF id
    <3> QED
      BY <2>2, <3>1, <1>1, <1>2 DEF GInv, TablesOK, Ids
  <2> QED
    BY <2>1, <2>2
<1>5. \A n \in DOMAIN node' : n <= lastId =>
         n \in DOMAIN node /\ node'[n].qn = node[n].qn /\ node'[n].project = node[n].project
  BY <1>1, <1>4
<1>6. TablesOK'
  BY <1>1, <1>4 DEF GInv, TablesOK, Row, Ids
<1>7. HeldOK' /\ BatchOK'
  BY <1>1, <1>4, <1>5, HeldStays, BatchStays DEF GInv
<1>8. ASSUME NEW k \in DOMAIN edge' PROVE EdgeOK(k, edge[k])'
  <2>1. k \in DOMAIN edge /\ edge'[k] = edge[k] /\ EdgeOK(k, edge[k])
    BY <1>1 DEF GInv, EdgesOK
  <2>2. k[1] \in DOMAIN node /\ k[2] \in DOMAIN node /\ k[1] <= lastId /\ k[2] <= lastId
    BY <2>1 DEF EdgeOK, GInv, TablesOK
  <2> QED
    BY <2>1, <2>2, <1>1, <1>5 DEF EdgeOK
<1>9. EdgesOK'
  BY <1>1, <1>8 DEF GInv, EdgesOK
<1> QED
  BY <1>6, <1>7, <1>9 DEF GInv

LEMMA FindOK ==
    ASSUME GInv, NEW p \in Project, FindNodeIDsByQNs(p)
    PROVE  GInv'
<1>1. /\ UNCHANGED <<projects, node, lastId, edge, embedded, batch>>
      /\ held' = [project |-> p, id |-> [q \in QN |-> IdOf(p, q)]]
  BY DEF FindNodeIDsByQNs
<1>2. ASSUME NEW q \in QN, IdOf(p, q) # None PROVE Means(p, IdOf(p, q), q)
  <2>1. IdOf(p, q) \in DOMAIN node /\ node[IdOf(p, q)].qn = q /\ node[IdOf(p, q)].project = p
    BY <1>2 DEF IdOf, Nodes
  <2> QED
    BY <2>1 DEF Means, GInv, TablesOK
<1>3. HeldOK'
  BY <1>1, <1>2 DEF HeldOK, Means
<1> QED
  BY <1>1, <1>3 DEF GInv, TablesOK, BatchOK, RowOK, Means, EdgesOK, EdgeOK

\* What the writer makes of the ids it holds.
LEMMA RowOfOK ==
    ASSUME GInv, NEW a \in QN, NEW b \in QN, NEW t \in Type, Holds(a, b)
    PROVE  RowOK(RowOf(a, b, t))
  BY DEF RowOf, Holds, RowOK, EdgeRow, GInv, HeldOK, Means

LEMMA InsertEdgeOK ==
    ASSUME GInv, NEW a \in QN, NEW b \in QN, NEW t \in Type, Holds(a, b),
           InsertEdge(RowOf(a, b, t))
    PROVE  GInv'
<1> DEFINE r == RowOf(a, b, t)
<1>1. RowOK(r)
  BY RowOfOK
<1> HIDE DEF r
<1>2. /\ ~Stale(r) /\ edge' = Merged(<<r>>)
      /\ UNCHANGED <<projects, node, lastId, embedded, held, batch>>
  BY DEF InsertEdge, r
<1>3. <<r>> \in Seq(EdgeRow) /\ \A i \in DOMAIN <<r>> : RowOK(<<r>>[i]) /\ ~Stale(<<r>>[i])
  BY <1>1, <1>2 DEF RowOK
<1>4. EdgesOK'
  BY <1>2, <1>3, MergedOK
<1> QED
  BY <1>2, <1>4 DEF GInv, TablesOK, HeldOK, BatchOK, RowOK, Means

LEMMA InsertEdgeBatchOK ==
    ASSUME GInv, NEW shape \in Shapes, InsertEdgeBatch(shape)
    PROVE  GInv'
<1> DEFINE rows == [i \in DOMAIN shape |-> RowOf(shape[i][1], shape[i][2], shape[i][3])]
<1>1. /\ UNCHANGED <<projects, node, lastId, edge, embedded, held>>
      /\ \A i \in DOMAIN shape : Holds(shape[i][1], shape[i][2])
      /\ batch' = [rows |-> rows, next |-> 1, single |-> 0, dropped |-> 0, lost |-> {}]
  BY DEF InsertEdgeBatch
<1>2. shape \in Seq(QN \X QN \X Type)
  BY ShapesAreBatches
<1>3. \A i \in DOMAIN shape : RowOK(RowOf(shape[i][1], shape[i][2], shape[i][3]))
  BY <1>1, <1>2, RowOfOK
<1>4. rows \in Seq(EdgeRow) /\ DOMAIN rows = DOMAIN shape
  <2>1. \A i \in DOMAIN shape : RowOf(shape[i][1], shape[i][2], shape[i][3]) \in EdgeRow
    BY <1>3 DEF RowOK
  <2>2. DOMAIN shape = 1..Len(shape) /\ Len(shape) \in Nat
    BY <1>2
  <2>3. rows \in [1..Len(shape) -> EdgeRow]
    BY <2>1, <2>2
  <2> QED
    BY <2>2, <2>3
<1>5. \A i \in DOMAIN rows : RowOK(rows[i])
  BY <1>3, <1>4
<1> HIDE DEF rows
<1>6. BatchOK'
  <2>1. \A i \in DOMAIN batch'.rows : RowOK(batch.rows[i])'
    BY <1>1, <1>5 DEF RowOK, Means
  <2>2. Cardinality({}) = 0
    BY FS_EmptySet
  <2>3. batch' \in [rows : Seq(EdgeRow), next : Nat \ {0}, single : Nat, dropped : Nat,
                    lost : SUBSET Nat]
    BY <1>1, <1>4
  <2> QED
    BY <1>1, <2>1, <2>2, <2>3 DEF BatchOK
<1> QED
  BY <1>1, <1>6 DEF GInv, TablesOK, HeldOK, Means, EdgesOK, EdgeOK

LEMMA RowStays ==
    ASSUME NEW r, RowOK(r), UNCHANGED <<node, lastId>>
    PROVE  RowOK(r)'
  BY DEF RowOK, Means

LEMMA ChunkEndOK ==
    ASSUME BatchOK, batch # None, batch.next <= Len(batch.rows)
    PROVE  /\ ChunkEnd \in DOMAIN batch.rows /\ batch.next <= ChunkEnd /\ ChunkEnd \in Nat
           /\ SubSeq(batch.rows, batch.next, ChunkEnd) \in Seq(EdgeRow)
           /\ \A i \in batch.next..ChunkEnd :
                \E j \in DOMAIN SubSeq(batch.rows, batch.next, ChunkEnd) :
                   SubSeq(batch.rows, batch.next, ChunkEnd)[j] = batch.rows[i]
           /\ \A j \in DOMAIN SubSeq(batch.rows, batch.next, ChunkEnd) :
                \E i \in DOMAIN batch.rows :
                   SubSeq(batch.rows, batch.next, ChunkEnd)[j] = batch.rows[i]
<1> DEFINE rows == batch.rows
           first == batch.next
           part == SubSeq(rows, first, ChunkEnd)
<1>1. rows \in Seq(EdgeRow) /\ first \in Nat \ {0} /\ Len(rows) \in Nat /\ DOMAIN rows = 1..Len(rows)
  BY DEF BatchOK
<1>2. ChunkEnd \in 1..Len(rows) /\ first <= ChunkEnd /\ ChunkEnd \in Nat
  BY <1>1 DEF ChunkEnd
<1> HIDE DEF rows, first
<1>3. part \in Seq(EdgeRow) /\ Len(part) = ChunkEnd - first + 1
      /\ \A j \in 1..Len(part) : part[j] = rows[first + j - 1]
  BY <1>1, <1>2
<1>4. \A i \in first..ChunkEnd : i - first + 1 \in DOMAIN part /\ part[i - first + 1] = rows[i]
  BY <1>1, <1>2, <1>3
<1>5. \A j \in DOMAIN part : first + j - 1 \in DOMAIN rows /\ part[j] = rows[first + j - 1]
  BY <1>1, <1>2, <1>3
<1> HIDE DEF part
<1>6. \A i \in first..ChunkEnd : \E j \in DOMAIN part : part[j] = rows[i]
  BY <1>4
<1>7. \A j \in DOMAIN part : \E i \in DOMAIN rows : part[j] = rows[i]
  BY <1>5
<1> QED
  BY <1>1, <1>2, <1>3, <1>6, <1>7 DEF part, rows, first

LEMMA InsertEdgeChunkOK ==
    ASSUME GInv, insertEdgeChunk
    PROVE  GInv' /\ Accounted
<1> DEFINE rows == SubSeq(batch.rows, batch.next, ChunkEnd)
<1>1. /\ batch # None /\ batch.single = 0 /\ batch.next <= Len(batch.rows)
      /\ UNCHANGED <<projects, node, lastId, embedded, held>>
  BY DEF insertEdgeChunk
<1>2. /\ batch \in [rows : Seq(EdgeRow), next : Nat \ {0}, single : Nat, dropped : Nat,
                    lost : SUBSET Nat]
      /\ \A i \in DOMAIN batch.rows : RowOK(batch.rows[i])
      /\ batch.lost \subseteq 1..(batch.next - 1)
      /\ batch.dropped = Cardinality(batch.lost)
  BY <1>1 DEF GInv, BatchOK
<1>3. /\ ChunkEnd \in DOMAIN batch.rows /\ batch.next <= ChunkEnd /\ ChunkEnd \in Nat
      /\ rows \in Seq(EdgeRow)
      /\ \A i \in batch.next..ChunkEnd : \E j \in DOMAIN rows : rows[j] = batch.rows[i]
      /\ \A j \in DOMAIN rows : \E i \in DOMAIN batch.rows : rows[j] = batch.rows[i]
  BY <1>1, ChunkEndOK DEF GInv
<1>4. batch'.rows = batch.rows => \A i \in DOMAIN batch'.rows : RowOK(batch.rows[i])'
  <2>1. \A r : RowOK(r) => RowOK(r)'
    BY <1>1, RowStays
  <2> QED
    BY <1>2, <2>1 DEF RowOK, Means
<1> HIDE DEF rows
<1>5. CASE \E i \in DOMAIN rows : Stale(rows[i])
  <2>1. batch' = [batch EXCEPT !.single = ChunkEnd] /\ UNCHANGED edge
    BY <1>5 DEF insertEdgeChunk, rows
  <2>2. /\ batch'.rows = batch.rows /\ batch'.next = batch.next /\ batch'.single = ChunkEnd
        /\ batch'.lost = batch.lost /\ batch'.dropped = batch.dropped
        /\ batch' \in [rows : Seq(EdgeRow), next : Nat \ {0}, single : Nat, dropped : Nat,
                        lost : SUBSET Nat]
    BY <1>2, <1>3, <2>1
  <2>3. BatchOK'
    BY <1>2, <1>3, <1>4, <2>2 DEF BatchOK
  <2>4. GInv'
    BY <1>1, <2>1, <2>3 DEF GInv, TablesOK, HeldOK, Means, EdgesOK, EdgeOK
  <2>5. Accounted
    BY <1>2, <2>2 DEF Accounted
  <2> QED
    BY <2>4, <2>5
<1>6. CASE ~\E i \in DOMAIN rows : Stale(rows[i])
  <2>1. batch' = [batch EXCEPT !.next = ChunkEnd + 1] /\ edge' = Merged(rows)
    BY <1>6 DEF insertEdgeChunk, rows
  <2>2. /\ batch'.rows = batch.rows /\ batch'.next = ChunkEnd + 1 /\ batch'.single = 0
        /\ batch'.lost = batch.lost /\ batch'.dropped = batch.dropped
        /\ batch' \in [rows : Seq(EdgeRow), next : Nat \ {0}, single : Nat, dropped : Nat,
                        lost : SUBSET Nat]
    <3>1. ChunkEnd + 1 \in Nat \ {0}
      BY <1>3
    <3> HIDE DEF ChunkEnd
    <3> QED
      BY <1>1, <1>2, <2>1, <3>1
  <2>3. batch'.lost \subseteq 1..(batch'.next - 1)
    BY <1>2, <1>3, <2>2
  <2>4. BatchOK'
    BY <1>2, <1>4, <2>2, <2>3 DEF BatchOK
  <2>5. \A j \in DOMAIN rows : RowOK(rows[j]) /\ ~Stale(rows[j])
    BY <1>2, <1>3, <1>6
  <2>6. EdgesOK' /\ \A j \in DOMAIN rows : Key(rows[j]) \in DOMAIN edge'
    BY <1>1, <1>3, <2>1, <2>5, MergedOK
  <2>7. GInv'
    BY <1>1, <2>4, <2>6 DEF GInv, TablesOK, HeldOK, Means
  <2>8. ASSUME NEW i \in batch.next..(batch'.next - 1)
        PROVE  i \notin batch'.lost /\ Key(batch.rows[i]) \in DOMAIN edge'
    <3>1. i \in batch.next..ChunkEnd
      BY <1>2, <1>3, <2>2, <2>8
    <3>2. i \notin batch.lost
      BY <1>2, <3>1
    <3> QED
      BY <1>3, <2>2, <2>6, <3>1, <3>2
  <2>9. Accounted
    BY <1>2, <2>2, <2>8 DEF Accounted
  <2> QED
    BY <2>7, <2>9
<1> QED
  BY <1>5, <1>6

LEMMA InsertRowOK ==
    ASSUME GInv, InsertRow
    PROVE  GInv' /\ Accounted
<1> DEFINE r == batch.rows[batch.next]
           left == [batch EXCEPT !.next = @ + 1, !.single = IF batch.next = @ THEN 0 ELSE @]
<1>1. /\ batch # None /\ batch.single # 0
      /\ UNCHANGED <<projects, node, lastId, embedded, held>>
  BY DEF InsertRow
<1>2. /\ batch \in [rows : Seq(EdgeRow), next : Nat \ {0}, single : Nat, dropped : Nat,
                    lost : SUBSET Nat]
      /\ \A i \in DOMAIN batch.rows : RowOK(batch.rows[i])
      /\ batch.lost \subseteq 1..(batch.next - 1)
      /\ batch.dropped = Cardinality(batch.lost)
      /\ batch.next <= batch.single /\ batch.single \in DOMAIN batch.rows
  BY <1>1 DEF GInv, BatchOK
<1>3. batch.next \in DOMAIN batch.rows
  BY <1>2
<1>4. RowOK(r) /\ r \in EdgeRow
  BY <1>2, <1>3 DEF RowOK
<1>5. batch'.rows = batch.rows => \A i \in DOMAIN batch'.rows : RowOK(batch.rows[i])'
  <2>1. \A x : RowOK(x) => RowOK(x)'
    BY <1>1, RowStays
  <2> QED
    BY <1>2, <2>1 DEF RowOK, Means
<1>6. /\ left \in [rows : Seq(EdgeRow), next : Nat \ {0}, single : Nat, dropped : Nat,
                   lost : SUBSET Nat]
      /\ left.rows = batch.rows /\ left.next = batch.next + 1
      /\ left.lost = batch.lost /\ left.dropped = batch.dropped
      /\ left.single # 0 => left.next <= left.single /\ left.single \in DOMAIN batch.rows
  <2> DEFINE single == IF batch.next = batch.single THEN 0 ELSE batch.single
  <2>1. batch.next + 1 \in Nat \ {0} /\ single \in Nat
    BY <1>2
  <2>2. left = [batch EXCEPT !.next = batch.next + 1, !.single = single]
    BY <1>2
  <2>3. single # 0 => batch.next + 1 <= single /\ single \in DOMAIN batch.rows
    BY <1>2
  <2> HIDE DEF single, left
  <2> QED
    BY <1>2, <2>1, <2>2, <2>3
<1>7. CASE Stale(r)
  <2>1. /\ batch' = [left EXCEPT !.dropped = @ + 1, !.lost = @ \cup {batch.next}]
        /\ UNCHANGED edge
    BY <1>7 DEF InsertRow
  <2> HIDE DEF left
  <2>2. /\ batch'.rows = batch.rows /\ batch'.next = batch.next + 1
        /\ batch'.single = left.single /\ batch'.lost = batch.lost \cup {batch.next}
        /\ batch'.dropped = batch.dropped + 1
        /\ batch' \in [rows : Seq(EdgeRow), next : Nat \ {0}, single : Nat, dropped : Nat,
                        lost : SUBSET Nat]
    <3>1. batch.dropped + 1 \in Nat /\ batch.lost \cup {batch.next} \in SUBSET Nat
      BY <1>2
    <3>2. batch' = [left EXCEPT !.dropped = batch.dropped + 1,
                                !.lost = batch.lost \cup {batch.next}]
      BY <1>6, <2>1
    <3> QED
      BY <1>2, <1>6, <3>1, <3>2
  <2>3. batch'.lost \subseteq 1..(batch'.next - 1)
    BY <1>2, <2>2
  <2>4. batch'.dropped = Cardinality(batch'.lost)
    <3>1. IsFiniteSet(batch.lost) /\ batch.next \notin batch.lost
      <4>1. IsFiniteSet(1..(batch.next - 1))
        BY <1>2, FS_Interval
      <4> QED
        BY <1>2, <4>1, FS_Subset
    <3>2. Cardinality(batch.lost \cup {batch.next}) = Cardinality(batch.lost) + 1
      BY <3>1, FS_AddElement
    <3> QED
      BY <1>2, <2>2, <3>2
  <2>5. BatchOK'
    BY <1>5, <1>6, <2>2, <2>3, <2>4 DEF BatchOK
  <2>6. GInv'
    BY <1>1, <2>1, <2>5 DEF GInv, TablesOK, HeldOK, Means, EdgesOK, EdgeOK
  <2>7. ~({r.src, r.tgt} \subseteq DOMAIN node')
    <3>1. r.project \in projects \/ ~({r.src, r.tgt} \subseteq DOMAIN node)
      BY <1>4 DEF GInv, TablesOK, RowOK, Means
    <3> QED
      BY <1>1, <1>7, <3>1 DEF Stale
  <2>8. Accounted
    <3>1. \A i \in batch.next..(batch'.next - 1) : i = batch.next /\ i \in batch'.lost
      BY <1>2, <2>2
    <3> QED
      BY <2>4, <2>7, <3>1 DEF Accounted
  <2> QED
    BY <2>6, <2>8
<1>8. CASE ~Stale(r)
  <2>1. batch' = left /\ edge' = Merged(<<r>>)
    BY <1>8 DEF InsertRow
  <2>2. <<r>> \in Seq(EdgeRow) /\ \A i \in DOMAIN <<r>> : RowOK(<<r>>[i]) /\ ~Stale(<<r>>[i])
    BY <1>4, <1>8
  <2>3. EdgesOK' /\ Key(r) \in DOMAIN edge'
    <3>1. EdgesOK' /\ \A i \in DOMAIN <<r>> : Key(<<r>>[i]) \in DOMAIN edge'
      BY <1>1, <2>1, <2>2, MergedOK
    <3> QED
      BY <3>1
  <2> HIDE DEF left
  <2>4. batch'.lost \subseteq 1..(batch'.next - 1)
    BY <1>2, <1>6, <2>1
  <2>5. BatchOK'
    BY <1>2, <1>5, <1>6, <2>1, <2>4 DEF BatchOK
  <2>6. GInv'
    BY <1>1, <2>3, <2>5 DEF GInv, TablesOK, HeldOK, Means
  <2>7. Accounted
    <3>1. \A i \in batch.next..(batch'.next - 1) : i = batch.next /\ i \notin batch'.lost
      BY <1>2, <1>6, <2>1
    <3> QED
      BY <1>2, <1>6, <2>1, <2>3, <3>1 DEF Accounted
  <2> QED
    BY <2>6, <2>7
<1> QED
  BY <1>7, <1>8

LEMMA GInvStep ==
    ASSUME GInv, [Next]_vars
    PROVE  GInv' /\ [Accounted]_vars
<1> DEFINE Quiet == batch = batch' \/ batch = None \/ batch' = None
<1>q. Quiet /\ GInv' => Accounted
  BY DEF Accounted, GInv, BatchOK
<1>1. CASE \E p \in Project : UpsertProject(p)
  <2>1. UNCHANGED <<node, lastId, edge, embedded, held, batch>> /\ projects \subseteq projects'
        /\ projects' \subseteq Project
    BY <1>1 DEF UpsertProject, GInv, TablesOK
  <2> QED
    BY <2>1, <1>q DEF GInv, TablesOK, HeldOK, Means, BatchOK, RowOK, EdgesOK, EdgeOK
<1>2. ASSUME NEW gone, DeleteNodes(gone), projects' \subseteq projects,
             \A n \in DOMAIN node \ gone : node[n].project \in projects'
      PROVE  GInv' /\ Accounted
  BY <1>2, <1>q, DeleteNodesOK DEF DeleteNodes
<1>3. CASE \E p \in Project : DeleteProject(p)
  BY <1>2, <1>3 DEF DeleteProject, Nodes, GInv, TablesOK
<1>4. CASE \E p \in Project : DeleteNodesByProject(p)
  BY <1>2, <1>4 DEF DeleteNodesByProject, GInv, TablesOK
<1>5. CASE \E p \in Project, f \in File : DeleteNodesByFile(p, f)
  BY <1>2, <1>5 DEF DeleteNodesByFile, GInv, TablesOK
<1>6. CASE \E p \in Project, l \in Label : DeleteNodesByLabel(p, l) \/ DeleteOrphanNodesByLabel(p, l)
  BY <1>2, <1>6 DEF DeleteNodesByLabel, DeleteOrphanNodesByLabel, GInv, TablesOK
<1>7. ASSUME NEW gone, DeleteEdges(gone) PROVE GInv' /\ Accounted
  BY <1>7, <1>q, DeleteEdgesOK DEF DeleteEdges
<1>8. CASE \E p \in Project : DeleteEdgesByProject(p)
  BY <1>7, <1>8 DEF DeleteEdgesByProject
<1>9. CASE \E p \in Project, t \in Type : DeleteEdgesByType(p, t)
  BY <1>7, <1>9 DEF DeleteEdgesByType
<1>10. CASE \E p \in Project, t \in Type, f \in File : DeleteEdgesBySourceFile(p, f, t)
  BY <1>7, <1>10 DEF DeleteEdgesBySourceFile
<1>11. CASE \E p \in Project, t \in Type, from \in SUBSET File, to \in SUBSET File :
              DeleteEdgesBetweenFiles(p, t, from, to)
  BY <1>7, <1>11 DEF DeleteEdgesBetweenFiles
<1>12. CASE \E row \in Row : UpsertNode(row)
  BY <1>12, <1>q, UpsertNodeOK DEF UpsertNode
<1>13. CASE \E p \in Project : FindNodeIDsByQNs(p)
  BY <1>13, <1>q, FindOK DEF FindNodeIDsByQNs
<1>14. CASE \E a, b \in QN, t \in Type : Holds(a, b) /\ InsertEdge(RowOf(a, b, t))
  <2>1. UNCHANGED batch
    BY <1>14 DEF InsertEdge
  <2> QED
    BY <2>1, <1>14, <1>q, InsertEdgeOK
<1>15. CASE \E shape \in Shapes : InsertEdgeBatch(shape)
  <2>1. batch = None
    BY <1>15 DEF InsertEdgeBatch
  <2> QED
    BY <2>1, <1>15, <1>q, InsertEdgeBatchOK
<1>16. CASE UpsertEmbeddingBatch
  <2>1. UNCHANGED <<projects, node, lastId, edge, held, batch>> /\ embedded' \subseteq DOMAIN node
    BY <1>16 DEF UpsertEmbeddingBatch, GInv, TablesOK
  <2> QED
    BY <2>1, <1>q DEF GInv, TablesOK, HeldOK, Means, BatchOK, RowOK, EdgesOK, EdgeOK
<1>17. CASE insertEdgeChunk
  BY <1>17, InsertEdgeChunkOK
<1>18. CASE InsertRow
  BY <1>18, InsertRowOK
<1>19. CASE BatchDone
  <2>1. UNCHANGED <<projects, node, lastId, edge, embedded, held>> /\ batch' = None
    BY <1>19 DEF BatchDone
  <2> QED
    BY <2>1, <1>q DEF GInv, TablesOK, HeldOK, Means, BatchOK, RowOK, EdgesOK, EdgeOK
<1>20. CASE UNCHANGED vars
  BY <1>20 DEF vars, GInv, TablesOK, HeldOK, Means, BatchOK, RowOK, EdgesOK, EdgeOK
<1> QED
  BY <1>1, <1>3, <1>4, <1>5, <1>6, <1>8, <1>9, <1>10, <1>11, <1>12, <1>13, <1>14, <1>15, <1>16,
     <1>17, <1>18, <1>19, <1>20 DEF Next

LEMMA GInvInit == ASSUME Init PROVE GInv
<1>1. node = << >> /\ edge = << >> /\ batch = None /\ lastId = 0 /\ embedded = {}
  BY DEF Init
<1>2. DOMAIN node = {} /\ DOMAIN edge = {}
  BY <1>1
<1>3. node = [n \in DOMAIN node |-> node[n]] /\ edge = [k \in DOMAIN edge |-> edge[k]]
  BY <1>1
<1> QED
  BY <1>1, <1>2, <1>3 DEF Init, GInv, TablesOK, HeldOK, BatchOK, EdgesOK

LEMMA GInvHolds == Spec => []GInv
<1>1. Init => GInv
  BY GInvInit
<1>2. GInv /\ [Next]_vars => GInv'
  BY GInvStep
<1> QED
  BY <1>1, <1>2, PTL DEF Spec

\* Every edge joins the nodes its writer meant, in every behaviour of the
\* statements of nodes.go and edges.go.
THEOREM EdgesCorrect == Spec => []EdgesJoinWhatWasMeant
<1>1. GInv => EdgesJoinWhatWasMeant
  BY DEF GInv, TablesOK, EdgesOK, EdgeOK, EdgesJoinWhatWasMeant
<1> QED
  BY <1>1, GInvHolds, PTL

\* No edge and no embedding is left without its nodes.
THEOREM TablesAreSound == Spec => []NothingDangles
<1>1. GInv => NothingDangles
  BY DEF GInv, TablesOK, EdgesOK, EdgeOK, NothingDangles
<1> QED
  BY <1>1, GInvHolds, PTL

\* A row of a batch becomes an edge or is counted as lost, for good: the
\* PartialBatchInsertError of InsertEdgeBatch is exact.
THEOREM LossIsExact == Spec => LossIsReported
<1>1. Init => GInv
  BY GInvInit
<1>2. GInv /\ [Next]_vars => GInv' /\ [Accounted]_vars
  BY GInvStep
<1> QED
  BY <1>1, <1>2, PTL DEF Spec, LossIsReported
=============================================================================
