------------------------- MODULE GraphUpdate_proof -------------------------
(***************************************************************************)
(* Proofs about what an indexing run leaves behind: in the graph           *)
(* (GraphUpdate), for any repository, any sequence of edits and any        *)
(* limits, and in the caches (Caches), for any number of projects,         *)
(* searchers and askers.  The two share no state: the second half stands   *)
(* on its own.                                                             *)
(***************************************************************************)
EXTENDS GraphUpdate, Caches, FiniteSetTheorems, SequenceTheorems, WellFoundedInduction, TLAPS

-----------------------------------------------------------------------------
(* The graph.  The inductive invariant says what parsed remembers: the     *)
(* nodes are a rebuild of it, the edges too until a run is counted, and a  *)
(* file whose hash is stored was parsed with that content or not at all.   *)

\* Incremental runs rebuild the nodes of what each file was parsed with.
NodesAreParsed == Untwinned => owner = RebuiltNodes(parsed)

\* No run was counted since the last rebuild.
NewIsExact == isf = 0 => edges = RebuiltEdges(parsed)

\* A stored hash is of the content that was parsed, if any was.  When force
\* has cleared the hashes, nothing is known until the rebuild that follows.
HashedIsParsed ==
    hashes = Nothing \/ \A f \in File : parsed[f] \in {hashes[f], None}

IInv == TypeOK /\ NodesAreParsed /\ NewIsExact /\ HashedIsParsed /\ NoFileIsOld

-----------------------------------------------------------------------------
(* Smallest and largest members.                                           *)

\* A set of naturals has a smallest member.
LEMMA MinIsMember ==
    ASSUME NEW S, S \subseteq Nat, S # {}
    PROVE  Min(S) \in S /\ \A y \in S : Min(S) <= y
  <1> DEFINE R == {ss \in Nat \X Nat : ss[1] < ss[2]}
  <1>1. IsWellFoundedOn(R, Nat) BY NatLessThanWellFounded DEF OpToRel
  <1>2. PICK x \in S : \A y \in S : <<y, x>> \notin R
    <2> HIDE DEF R
    <2> QED BY <1>1, WFMin
  <1>3. \A y \in S : x <= y
    <2> TAKE y \in S
    <2>1. ~(y < x) BY <1>2
    <2> QED BY <2>1
  <1> QED BY <1>3 DEF Min

\* A set of files has a last member.
LEMMA MaxIsMember ==
    ASSUME NEW S, S \subseteq File, S # {}
    PROVE  Max(S) \in S
  <1> DEFINE n == Cardinality(File)
  <1> DEFINE T == {n - x : x \in S}
  <1>1. n \in Nat BY GraphAssumption, FS_CardinalityType
  <1>2. File = 1..n BY GraphAssumption
  <1>3. T \subseteq Nat /\ T # {} BY <1>1, <1>2
  <1>4. Min(T) \in T /\ \A y \in T : Min(T) <= y BY <1>3, MinIsMember
  <1>5. PICK x \in S : Min(T) = n - x BY <1>4
  <1>6. \A y \in S : x >= y
    <2> TAKE y \in S
    <2>1. Min(T) <= n - y BY <1>4
    <2> HIDE DEF n, T
    <2>2. x \in 1..n /\ y \in 1..n BY <1>2
    <2> QED BY <1>1, <1>5, <2>1, <2>2
  <1> QED BY <1>6 DEF Max

-----------------------------------------------------------------------------
(* Parsing.                                                                *)

\* Parsing gives nodes to files.
LEMMA ParsedType ==
    ASSUME NEW own \in [QN -> File \cup {None}], NEW d, NEW S \in SUBSET File
    PROVE  Parsed(own, d, S) \in [QN -> File \cup {None}]
  <1> SUFFICES ASSUME NEW q \in QN PROVE Parsed(own, d, S)[q] \in File \cup {None}
    BY DEF Parsed
  <1> DEFINE by == {f \in S : q \in Defines(d, f)}
  <1>1. CASE by = {} BY <1>1 DEF Parsed
  <1>2. CASE by # {}
    <2>1. Max(by) \in by BY <1>2, MaxIsMember
    <2> QED BY <1>2, <2>1 DEF Parsed
  <1> QED BY <1>1, <1>2

\* Every definition of a parsed file has a node.
LEMMA ParsedDefines ==
    ASSUME NEW own, NEW d, NEW S \in SUBSET File, NEW f \in S,
           NEW q \in QN, q \in Defines(d, f)
    PROVE  Parsed(own, d, S)[q] \in S
  <1> DEFINE by == {g \in S : q \in Defines(d, g)}
  <1>1. Max(by) \in by BY MaxIsMember
  <1> QED BY <1>1 DEF Parsed

\* Without twins, a node belongs to the only file that could define it.
LEMMA ParsedUntwinned ==
    ASSUME Untwinned, NEW own, NEW d, NEW S \in SUBSET File, NEW q \in QN
    PROVE  /\ \A f \in S : q \in Defines(d, f) => Parsed(own, d, S)[q] = f
           /\ (\A f \in S : q \notin Defines(d, f)) => Parsed(own, d, S)[q] = own[q]
  <1> DEFINE by == {g \in S : q \in Defines(d, g)}
  <1>1. ASSUME NEW f \in S, q \in Defines(d, f)
        PROVE  Parsed(own, d, S)[q] = f
    <2>1. \A g \in by : mod[g] = q[1] BY DEF Defines
    <2>2. by = {f} BY <1>1, <2>1 DEF Untwinned
    <2>3. Max(by) = f BY <2>2, MaxIsMember
    <2> QED BY <1>1, <2>2, <2>3 DEF Parsed
  <1>2. (\A f \in S : q \notin Defines(d, f)) => Parsed(own, d, S)[q] = own[q]
    BY DEF Parsed
  <1> QED BY <1>1, <1>2

\* The nodes of a rebuild, without twins.
LEMMA RebuiltUntwinned ==
    ASSUME Untwinned, NEW d, NEW q \in QN
    PROVE  /\ \A f \in Present(d) : q \in Defines(d, f) => RebuiltNodes(d)[q] = f
           /\ (\A f \in Present(d) : q \notin Defines(d, f)) => RebuiltNodes(d)[q] = None
  BY ParsedUntwinned DEF RebuiltNodes, Present

-----------------------------------------------------------------------------
(* Resolution.                                                             *)

\* A reference goes to a module that defines its name.
LEMMA HomeIsCandidate ==
    ASSUME NEW own, NEW f \in File, NEW r, Resolves(own, f, r)
    PROVE  Home(own, f, r) \in Candidates(own, r.name)
  <1>1. Candidates(own, r.name) \subseteq Nat BY GraphAssumption DEF Candidates
  <1>2. Min(Candidates(own, r.name)) \in Candidates(own, r.name)
    BY <1>1, MinIsMember DEF Resolves
  <1> QED BY <1>2 DEF Home, ImportMap, SameModule

\* The passes make edges between nodes that exist.
LEMMA ResolvedType ==
    ASSUME TypeOK, NEW own, NEW d \in Tree, NEW f \in Present(d)
    PROVE  /\ Resolved(own, d, f) \subseteq Edge
           /\ \A e \in Resolved(own, d, f) : own[e.src] # None /\ own[e.dst] # None
  <1>1. TopOf(f) \in QN BY GraphAssumption DEF TypeOK, TopOf, QN, Present
  <1>2. d[f] \in [defs : SUBSET Name,
                  refs : SUBSET [name : Name, kind : RefKind, from : Module \cup {None}]]
    BY GraphAssumption DEF Tree, Present
  <1>3. Imports(own, d, f) \subseteq Edge
    <2>1. \A m \in Candidates(own, Top) : <<m, Top>> \in QN BY DEF Candidates, QN
    <2> QED BY <1>1, <2>1 DEF Imports, Edge, TypeOfEdge
  <1>4. ASSUME NEW r \in d[f].refs, Resolves(own, f, r)
        PROVE  Reference(own, f, r) \in Edge
    <2>1. r \in [name : Name, kind : RefKind, from : Module \cup {None}] BY <1>2
    <2>2. <<Home(own, f, r), r.name>> \in QN
      BY <1>4, <2>1, HomeIsCandidate DEF Candidates, QN, Present
    <2>3. EdgeType(r, Proven(own, f, r)) \in TypeOfEdge BY DEF EdgeType, TypeOfEdge
    <2> QED BY <1>1, <2>2, <2>3 DEF Reference, Edge
  <1> QED BY <1>3, <1>4 DEF Resolved, Linked

-----------------------------------------------------------------------------
(* The layout never changes, so what a rebuild of a tree gives is the same *)
(* before and after a step.                                                *)

LEMMA NodesFixed ==
    ASSUME mod' = mod
    PROVE  /\ Untwinned' <=> Untwinned
           /\ RebuiltNodes(parsed)' = RebuiltNodes(parsed')
           /\ RebuiltNodes(seen)' = RebuiltNodes(seen')
  BY DEF Untwinned, RebuiltNodes, Parsed, Defines, Present

LEMMA EdgesFixed ==
    ASSUME mod' = mod
    PROVE  /\ RebuiltEdges(parsed)' = RebuiltEdges(parsed')
           /\ RebuiltEdges(seen)' = RebuiltEdges(seen')
  BY DEF RebuiltEdges, RebuiltNodes, Parsed, Defines, Present, Resolved, Linked, Imports,
         Reference, Home, Resolves, Proven, ImportMap, SameModule, External, TopOf
-----------------------------------------------------------------------------
(* What the graph becomes.                                                 *)

\* The part of TypeOK that is about the graph.
GraphOK(own, es) ==
    /\ own \in [QN -> File \cup {None}]
    /\ es \subseteq Edge
    /\ \A e \in es : own[e.src] # None /\ own[e.dst] # None

LEMMA RebuildType ==
    ASSUME TypeOK, Rebuild
    PROVE  GraphOK(owner', edges') /\ hashes' \in Tree /\ parsed' \in Tree
  <1>1. disk \in Tree /\ hashes \in Tree BY DEF TypeOK
  <1>2. owner' \in [QN -> File \cup {None}]
    BY ParsedType DEF Rebuild, RebuiltNodes, Present
  <1>3. \A f \in Present(disk) : Resolved(owner', disk, f) \subseteq Edge
            /\ \A e \in Resolved(owner', disk, f) : owner'[e.src] # None /\ owner'[e.dst] # None
    BY <1>1, ResolvedType
  <1>4. edges' = UNION {Resolved(owner', disk, f) : f \in Present(disk)}
    BY DEF Rebuild, RebuiltEdges
  <1>5. hashes' \in Tree BY <1>1 DEF Rebuild, Tree
  <1> QED BY <1>1, <1>2, <1>3, <1>4, <1>5 DEF GraphOK, Rebuild

\* A rebuild establishes the rest of the invariant, whatever came before.
LEMMA RebuildEstablishes ==
    ASSUME TypeOK, Rebuild, UNCHANGED tree, seen' = disk
    PROVE  NodesAreParsed' /\ edges' = RebuiltEdges(parsed)' /\ HashedIsParsed' /\ NoFileIsOld'
  <1>1. mod' = mod BY DEF tree
  <1>2. parsed' = disk /\ owner' = RebuiltNodes(disk) /\ edges' = RebuiltEdges(disk)
    BY DEF Rebuild
  <1>3. NodesAreParsed' BY <1>1, <1>2, NodesFixed DEF NodesAreParsed
  <1>4. edges' = RebuiltEdges(parsed)' BY <1>1, <1>2, EdgesFixed
  <1>5. HashedIsParsed' BY <1>2 DEF HashedIsParsed, Rebuild
  <1>6. NoFileIsOld' BY <1>2 DEF NoFileIsOld
  <1> QED BY <1>3, <1>4, <1>5, <1>6

\* The files that a run replaces or re-resolves are in the tree.
LEMMA ReadFilesArePresent ==
    /\ Changed \subseteq Present(disk) /\ Unchanged \subseteq Present(disk)
    /\ ToResolve \subseteq Present(disk)
    /\ Present(disk) \subseteq File /\ Changed \cap Deleted = {}
  BY DEF Changed, Unchanged, ToResolve, Importers, Callers, Present, Deleted

\* Kept nodes stay where they are.
LEMMA KeptStays ==
    ASSUME TypeOK, NEW q \in QN, owner[q] # None, q \notin Gone
    PROVE  Parsed(Kept, disk, Changed)[q] # None
  <1> DEFINE by == {f \in Changed : q \in Defines(disk, f)}
  <1>1. Kept[q] # None BY DEF Kept
  <1>2. CASE by = {} BY <1>1, <1>2 DEF Parsed
  <1>3. CASE by # {}
    <2>1. Parsed(Kept, disk, Changed)[q] \in Changed
      BY <1>3, ReadFilesArePresent, ParsedDefines
    <2> QED BY <2>1, GraphAssumption, ReadFilesArePresent
  <1> QED BY <1>2, <1>3

LEMMA IncrementalType ==
    ASSUME TypeOK, RunIncremental
    PROVE  GraphOK(owner', edges') /\ hashes' \in Tree /\ parsed' \in Tree
  <1>1. disk \in Tree /\ parsed \in Tree BY DEF TypeOK
  <1>2. Kept \in [QN -> File \cup {None}] BY DEF Kept, TypeOK
  <1>3. owner' \in [QN -> File \cup {None}]
    BY <1>2, ParsedType, ReadFilesArePresent DEF RunIncremental
  <1>4. \A f \in ToResolve : Resolved(owner', disk, f) \subseteq Edge
            /\ \A e \in Resolved(owner', disk, f) : owner'[e.src] # None /\ owner'[e.dst] # None
    BY <1>1, ResolvedType, ReadFilesArePresent
  <1>5. \A e \in Surviving : e \in Edge /\ owner'[e.src] # None /\ owner'[e.dst] # None
    <2> TAKE e \in Surviving
    <2>1. e \in Edge /\ e.src \notin Gone /\ e.dst \notin Gone
            /\ owner[e.src] # None /\ owner[e.dst] # None
      BY DEF Surviving, TypeOK
    <2>2. e.src \in QN /\ e.dst \in QN BY <2>1 DEF Edge
    <2> QED BY <2>1, <2>2, KeptStays DEF RunIncremental
  <1>6. edges' \subseteq Surviving \cup UNION {Resolved(owner', disk, f) : f \in ToResolve}
    BY DEF RunIncremental
  <1>7. parsed' \in Tree BY <1>1 DEF RunIncremental, Tree
  <1>8. hashes' \in Tree BY <1>1 DEF RunIncremental
  <1> QED BY <1>3, <1>4, <1>5, <1>6, <1>7, <1>8 DEF GraphOK
\* Where every file's nodes come from after an incremental run.
LEMMA IncrementalParsed ==
    ASSUME TypeOK, RunIncremental, NEW f \in File
    PROVE  /\ f \in Changed \cup Deleted => parsed'[f] = disk[f]
           /\ f \notin Changed \cup Deleted => parsed'[f] = parsed[f]
  BY DEF RunIncremental

\* Without twins, replacing the nodes of the changed files and removing those
\* of the deleted ones is as good as parsing everything again.
LEMMA IncrementalNodes ==
    ASSUME TypeOK, NodesAreParsed, RunIncremental, Untwinned
    PROVE  owner' = RebuiltNodes(parsed')
  <1>0. owner = RebuiltNodes(parsed) BY DEF NodesAreParsed
  <1>1. owner' = Parsed(Kept, disk, Changed) BY DEF RunIncremental
  <1>2. ASSUME NEW q \in QN
        PROVE  owner'[q] = RebuiltNodes(parsed')[q]
    <2>1. CASE \E f \in Changed : q \in Defines(disk, f)
      <3>1. PICK f \in Changed : q \in Defines(disk, f) BY <2>1
      <3>2. owner'[q] = f BY <1>1, <3>1, ParsedUntwinned, ReadFilesArePresent
      <3>3. parsed'[f] = disk[f] BY <3>1, IncrementalParsed, ReadFilesArePresent
      <3>4. f \in Present(parsed') /\ q \in Defines(parsed', f)
        BY <3>1, <3>3, ReadFilesArePresent DEF Present, Defines
      <3> QED BY <3>2, <3>4, RebuiltUntwinned
    <2>2. CASE \A f \in Changed : q \notin Defines(disk, f)
      <3>1. owner'[q] = Kept[q] BY <1>1, <2>2, ParsedUntwinned, ReadFilesArePresent
      <3>2. CASE q \notin Gone /\ owner[q] # None
        <4>1. PICK f \in Present(parsed) : q \in Defines(parsed, f) /\ owner[q] = f
          BY <1>0, <3>2, RebuiltUntwinned
        <4>2. f \notin Changed \cup Deleted BY <3>2, <4>1 DEF Gone
        <4>3. parsed'[f] = parsed[f] BY <4>1, <4>2, IncrementalParsed DEF Present
        <4>4. f \in Present(parsed') /\ q \in Defines(parsed', f)
          BY <4>1, <4>3 DEF Present, Defines
        <4>5. RebuiltNodes(parsed')[q] = f BY <4>4, RebuiltUntwinned
        <4> QED BY <3>1, <3>2, <4>1, <4>5 DEF Kept
      <3>3. CASE q \in Gone \/ owner[q] = None
        <4>1. Kept[q] = None BY <3>3 DEF Kept
        <4>2. ASSUME NEW f \in Present(parsed'), q \in Defines(parsed', f)
              PROVE  FALSE
          <5>1. f \in File /\ parsed'[f] # None BY DEF Present
          <5>2. f \notin Changed
            BY <2>2, <4>2, <5>1, IncrementalParsed DEF Defines
          <5>3. f \notin Deleted
            BY <5>1, IncrementalParsed DEF Deleted, Present
          <5>4. parsed'[f] = parsed[f] BY <5>1, <5>2, <5>3, IncrementalParsed
          <5>5. f \in Present(parsed) /\ q \in Defines(parsed, f)
            BY <4>2, <5>1, <5>4 DEF Present, Defines
          <5>6. owner[q] = f BY <1>0, <5>5, RebuiltUntwinned
          <5> QED BY <3>3, <5>1, <5>2, <5>3, <5>6, GraphAssumption DEF Gone
        <4> QED BY <3>1, <4>1, <4>2, RebuiltUntwinned
      <3> QED BY <3>2, <3>3
    <2> QED BY <2>1, <2>2
  <1> QED BY <1>1, <1>2 DEF RebuiltNodes, Parsed

\* Every file ends up parsed as it is, or stays without nodes.
LEMMA IncrementalHashes ==
    ASSUME TypeOK, HashedIsParsed, RunIncremental, NEW f \in File
    PROVE  parsed'[f] \in {disk[f], None}
  <1>1. hashes # Nothing BY DEF RunIncremental, Unchanged, Nothing, Present
  <1>2. parsed[f] \in {hashes[f], None} BY <1>1 DEF HashedIsParsed
  <1>3. CASE f \in Changed \cup Deleted BY <1>3, IncrementalParsed
  <1>4. CASE f \notin Changed \cup Deleted
    <2>1. disk[f] = hashes[f]
      BY <1>4 DEF Changed, Deleted, Unchanged, Present
    <2> QED BY <1>2, <1>4, <2>1, IncrementalParsed
  <1> QED BY <1>3, <1>4

-----------------------------------------------------------------------------
(* Steps.                                                                  *)

LEMMA NothingIsTree == Nothing \in Tree
  BY DEF Nothing, Tree

LEMMA InitEstablishes == Init => IInv
  <1> SUFFICES ASSUME Init PROVE IInv OBVIOUS
  <1>1. Nothing \in Tree BY NothingIsTree
  <1>2. Present(Nothing) = {} BY DEF Present, Nothing
  <1>3. TypeOK BY <1>1, GraphAssumption DEF Init, TypeOK
  <1>4. NodesAreParsed BY <1>2 DEF Init, NodesAreParsed, RebuiltNodes, Parsed
  <1>5. NewIsExact BY <1>2 DEF Init, NewIsExact, RebuiltEdges
  <1>6. HashedIsParsed BY DEF Init, HashedIsParsed
  <1>7. NoFileIsOld BY DEF Init, NoFileIsOld
  <1> QED BY <1>3, <1>4, <1>5, <1>6, <1>7 DEF IInv

\* A rebuild preserves the invariant, whether or not it resets the count.
LEMMA RebuildPreserves ==
    ASSUME IInv, Rebuild, UNCHANGED tree, seen' = disk,
           isf' \in Nat, Every > 0 => isf' <= Every
    PROVE  IInv'
  <1>1. GraphOK(owner', edges') /\ hashes' \in Tree /\ parsed' \in Tree
    BY RebuildType DEF IInv
  <1>2. TypeOK' BY <1>1 DEF IInv, TypeOK, GraphOK, tree
  <1>3. NodesAreParsed' /\ edges' = RebuiltEdges(parsed)' /\ HashedIsParsed' /\ NoFileIsOld'
    BY RebuildEstablishes DEF IInv
  <1> QED BY <1>2, <1>3 DEF IInv, NewIsExact

LEMMA IncrementalPreserves ==
    ASSUME IInv, RunIncremental, UNCHANGED tree, seen' = disk
    PROVE  IInv'
  <1>1. GraphOK(owner', edges') /\ hashes' \in Tree /\ parsed' \in Tree
    BY IncrementalType DEF IInv
  <1>2. isf \in Nat /\ isf' = isf + 1 /\ (Every > 0 => isf' <= Every)
    BY GraphAssumption DEF IInv, TypeOK, RunIncremental, Count, Due
  <1>3. TypeOK' BY <1>1, <1>2 DEF IInv, TypeOK, GraphOK, tree
  <1>4. NodesAreParsed'
    BY IncrementalNodes, NodesFixed DEF IInv, NodesAreParsed, tree
  <1>5. NewIsExact' BY <1>2 DEF NewIsExact
  <1>6. \A f \in File : parsed'[f] \in {disk[f], None} BY IncrementalHashes DEF IInv
  <1>7. HashedIsParsed' BY <1>6 DEF HashedIsParsed, RunIncremental
  <1>8. NoFileIsOld' BY <1>6 DEF NoFileIsOld
  <1> QED BY <1>3, <1>4, <1>5, <1>7, <1>8 DEF IInv

\* Nothing to do is said only of a tree whose hashes are all as stored.
LEMMA NoopPreserves ==
    ASSUME IInv, RunNoop, UNCHANGED tree, seen' = disk
    PROVE  IInv'
  <1>1. TypeOK' BY DEF IInv, TypeOK, RunNoop, graph, tree
  <1>2. NodesAreParsed' /\ NewIsExact'
    BY NodesFixed, EdgesFixed DEF IInv, NodesAreParsed, NewIsExact, RunNoop, graph, tree
  <1>3. HashedIsParsed' BY DEF IInv, HashedIsParsed, RunNoop, Nothing
  <1>4. NoFileIsOld'
    <2>1. \A f \in File : disk[f] = hashes[f]
      BY DEF RunNoop, Changed, Deleted, Unchanged, Present
    <2>2. hashes # Nothing BY DEF RunNoop, Unchanged, Nothing, Present
    <2> QED BY <2>1, <2>2 DEF IInv, HashedIsParsed, NoFileIsOld, RunNoop
  <1> QED BY <1>1, <1>2, <1>3, <1>4 DEF IInv

LEMMA RunPreserves == ASSUME IInv, Run PROVE IInv'
  <1>1. UNCHANGED tree /\ seen' = disk BY DEF Run
  <1>2. isf \in Nat /\ (Every > 0 => isf <= Every) BY DEF IInv, TypeOK
  <1>3. CASE RunFull \/ RunSentinel
    BY <1>1, <1>3, RebuildPreserves, GraphAssumption DEF RunFull, RunSentinel
  <1>4. CASE RunNoop BY <1>1, <1>4, NoopPreserves
  <1>5. CASE RunCapped
    <2>1. isf' \in Nat /\ (Every > 0 => isf' <= Every)
      BY <1>2, <1>5, GraphAssumption DEF RunCapped, Count, Due
    <2> QED BY <1>1, <1>5, <2>1, RebuildPreserves DEF RunCapped
  <1>6. CASE RunIncremental BY <1>1, <1>6, IncrementalPreserves
  <1> QED BY <1>3, <1>4, <1>5, <1>6 DEF Run

LEMMA NextPreserves == ASSUME IInv, [Next]_vars PROVE IInv'
  <1>1. CASE Run BY <1>1, RunPreserves
  <1>2. CASE ForceReindex
    <2>1. Nothing \in Tree BY NothingIsTree
    <2>2. TypeOK' BY <1>2, <2>1 DEF IInv, TypeOK, ForceReindex, graph, tree
    <2>3. NodesAreParsed' /\ NewIsExact'
      BY <1>2, NodesFixed, EdgesFixed DEF IInv, NodesAreParsed, NewIsExact, ForceReindex, graph, tree
    <2>4. HashedIsParsed' /\ NoFileIsOld'
      BY <1>2 DEF IInv, HashedIsParsed, NoFileIsOld, ForceReindex, Nothing
    <2> QED BY <2>2, <2>3, <2>4 DEF IInv
  <1>3. ASSUME NEW f \in File, Edit(f) PROVE IInv'
    <2>1. disk' \in Tree
      <3>1. PICK c \in Contents[f] \cup {None} : disk' = [disk EXCEPT ![f] = c]
        BY <1>3 DEF Edit
      <3>2. c \in {None} \cup UNION {Contents[g] : g \in File} OBVIOUS
      <3> QED BY <3>1, <3>2 DEF IInv, TypeOK, Tree
    <2>2. edits' \in 0..MaxEdits BY <1>3, GraphAssumption DEF IInv, TypeOK, Edit
    <2>3. TypeOK' BY <1>3, <2>1, <2>2 DEF IInv, TypeOK, Edit, graph
    <2>4. NodesAreParsed' /\ NewIsExact'
      BY <1>3, NodesFixed, EdgesFixed DEF IInv, NodesAreParsed, NewIsExact, Edit, graph
    <2>5. HashedIsParsed' /\ NoFileIsOld'
      BY <1>3 DEF IInv, HashedIsParsed, NoFileIsOld, Edit, Nothing
    <2> QED BY <2>3, <2>4, <2>5 DEF IInv
  <1>4. CASE UNCHANGED vars
    BY <1>4, NodesFixed, EdgesFixed DEF vars, tree, graph, IInv, TypeOK, NodesAreParsed, NewIsExact,
       HashedIsParsed, NoFileIsOld, Nothing
  <1> QED BY <1>1, <1>2, <1>3, <1>4 DEF Next

\* The inductive invariant holds of every behaviour.
THEOREM Invariance == Spec => []IInv
  <1> QED BY InitEstablishes, NextPreserves, PTL DEF Spec

\* Incremental runs leave the nodes of a rebuild, for any repository and any
\* limits, and no file keeps nodes of older content.
THEOREM GraphCorrect == Spec => [](TypeOK /\ NodesMatchRebuild /\ NoFileIsOld)
  <1>1. IInv => TypeOK /\ NodesMatchRebuild /\ NoFileIsOld
    BY DEF IInv, TypeOK, NodesAreParsed, NodesMatchRebuild, AllParsed
  <1> QED BY <1>1, Invariance, PTL

\* A graph whose edges are not a rebuild's has been counted towards the sentinel
\* that rebuilds it.
THEOREM DriftCorrect == Spec => []DriftIsCounted
  <1>1. IInv => DriftIsCounted BY DEF IInv, TypeOK, NodesAreParsed, AllParsed, NewIsExact, DriftIsCounted
  <1> QED BY <1>1, Invariance, PTL

-----------------------------------------------------------------------------
(* What an incremental run does to edges, when it leaves every file parsed.*)

\* The nodes are those of a rebuild.
LEMMA SoundNodes ==
    ASSUME IInv, RunIncremental, Sound, seen' = disk
    PROVE  owner' = RebuiltNodes(disk)
  BY IncrementalNodes DEF IInv, Sound

\* A file's own node belongs to it.
LEMMA TopBelongs ==
    ASSUME IInv, Untwinned, NEW d, NEW f \in Present(d)
    PROVE  RebuiltNodes(d)[TopOf(f)] = f
  <1>1. TopOf(f) \in QN /\ TopOf(f) \in Defines(d, f)
    BY GraphAssumption DEF IInv, TypeOK, TopOf, QN, Present, Defines
  <1> QED BY <1>1, RebuiltUntwinned

\* An edge that the passes give a file starts at the file's own node.
LEMMA ResolvedSource ==
    \A own, d, f : \A e \in Resolved(own, d, f) : e.src = TopOf(f)
  BY DEF Resolved, Linked, Imports, Reference

LEMMA TopsDiffer ==
    ASSUME Untwinned, NEW f \in File, NEW g \in File, TopOf(f) = TopOf(g)
    PROVE  f = g
  BY DEF Untwinned, TopOf

LEMMA IncrementalKeepsCalls ==
    ASSUME IInv, RunIncremental, Sound, seen' = disk,
           NEW e \in edges \cap RebuiltEdges(disk), e.type \in {"CALLS", "USAGE"}
    PROVE  e \in edges'
  <1>1. owner' = RebuiltNodes(disk) BY SoundNodes
  <1>2. PICK f \in Present(disk) : e \in Resolved(owner', disk, f)
    BY <1>1 DEF RebuiltEdges
  <1>3. CASE f \in ToResolve BY <1>2, <1>3 DEF RunIncremental
  <1>4. CASE f \notin ToResolve
    <2>1. e.src = TopOf(f) /\ e \in Edge BY <1>2, ResolvedSource DEF IInv, TypeOK
    <2>2. f \in File /\ f \in Unchanged /\ f \notin Callers /\ f \notin Changed /\ f \notin Deleted
      BY <1>4 DEF ToResolve, Changed, Deleted, Present
    <2>3. parsed[f] = disk[f]
      BY <2>2, IncrementalParsed DEF IInv, Sound
    <2>4. owner[e.src] = f
      <3>1. f \in Present(parsed) BY <1>2, <2>3 DEF Present
      <3>2. owner = RebuiltNodes(parsed) BY DEF IInv, NodesAreParsed, Sound
      <3> QED BY <2>1, <3>1, <3>2, TopBelongs DEF Sound
    <2>5. owner[e.dst] \notin Changed \cup Deleted BY <2>2, <2>4 DEF Callers, Traced
    <2>6. e \in Surviving BY <2>2, <2>4, <2>5 DEF Surviving, Gone
    <2>7. owner'[e.src] = f BY <1>1, <1>2, <2>1, TopBelongs DEF Sound
    <2>8. e \notin Dropped(owner') BY <1>4, <2>7 DEF Dropped
    <2> QED BY <2>6, <2>8 DEF RunIncremental
  <1> QED BY <1>3, <1>4

\* Types of edges that a run clears.
Kinds == {"CALLS", "USAGE", "USES_TYPE"}

LEMMA IncrementalResolves ==
    ASSUME IInv, RunIncremental, Sound, seen' = disk, NEW u \in ToResolve
    PROVE  {e \in edges' : e.src = TopOf(u) /\ e.type \in Kinds}
             = {e \in RebuiltEdges(disk) : e.src = TopOf(u) /\ e.type \in Kinds}
  <1>1. owner' = RebuiltNodes(disk) BY SoundNodes
  <1>2. u \in Present(disk) /\ ToResolve \subseteq Present(disk) /\ Present(disk) \subseteq File
    BY ReadFilesArePresent
  <1>3. ASSUME NEW e \in edges', e.src = TopOf(u), e.type \in Kinds
        PROVE  e \in RebuiltEdges(disk)
    <2>1. owner'[e.src] = u BY <1>1, <1>2, <1>3, TopBelongs DEF Sound
    <2>2. CASE e \in Surviving \ Dropped(owner')
      BY <1>3, <2>1, <2>2 DEF Dropped, Cleared, Kinds
    <2>3. CASE \E f \in ToResolve : e \in Resolved(owner', disk, f)
      BY <1>1, <1>2, <2>3 DEF RebuiltEdges
    <2> QED BY <2>2, <2>3 DEF RunIncremental
  <1>4. ASSUME NEW e \in RebuiltEdges(disk), e.src = TopOf(u)
        PROVE  e \in edges'
    <2>1. PICK f \in Present(disk) : e \in Resolved(owner', disk, f)
      BY <1>1 DEF RebuiltEdges
    <2>2. f = u BY <1>2, <1>4, <2>1, ResolvedSource, TopsDiffer DEF Sound
    <2> QED BY <2>1, <2>2 DEF RunIncremental
  <1> QED BY <1>3, <1>4

\* Only a run counts runs, so a step that looks like an incremental run is one.
LEMMA OnlyRunsCount ==
    ASSUME IInv, Next, RunIncremental
    PROVE  seen' = disk
  <1>1. isf' # isf BY DEF IInv, TypeOK, RunIncremental, Count
  <1> QED BY <1>1 DEF Next, Run, ForceReindex, Edit

\* An incremental run loses no call or usage that a rebuild would find again.
THEOREM CallsNotLost == Spec => CallsSurvive
  <1>1. ASSUME IInv, Next
        PROVE  RunIncremental /\ Sound =>
                 {e \in edges \cap RebuiltEdges(disk) : e.type \in {"CALLS", "USAGE"}} \subseteq edges'
    BY <1>1, OnlyRunsCount, IncrementalKeepsCalls
  <1> QED BY <1>1, Invariance, PTL DEF Spec, CallsSurvive

\* A file that an incremental run re-resolves has the calls, usages and type
\* references that a rebuild gives it, and no others.
THEOREM ResolvedExactly == Spec => ResolvedMatchesRebuild
  <1>1. ASSUME IInv, Next
        PROVE  RunIncremental /\ Sound =>
                 \A u \in ToResolve :
                     {e \in edges' : e.src = TopOf(u) /\ e.type \in {"CALLS", "USAGE", "USES_TYPE"}}
                         = {e \in RebuiltEdges(disk) :
                              e.src = TopOf(u) /\ e.type \in {"CALLS", "USAGE", "USES_TYPE"}}
    BY <1>1, OnlyRunsCount, IncrementalResolves DEF Kinds
  <1> QED BY <1>1, Invariance, PTL DEF Spec, ResolvedMatchesRebuild

-----------------------------------------------------------------------------
(* The caches.  The inductive invariant adds to the checked invariants     *)
(* what the lock of the slot excludes, what a run that swept the slot may  *)
(* find in it, and how current an answer is that its query has read and    *)
(* not stored.                                                             *)

Within == {"passes", "invalidate", "acquire", "relock", "end"}
AnyProject == Project \cup {NoProject}
RunRecord == [pc : Within \cup {"idle", "identity", "clear"}, project : AnyProject,
              by : {"tool", "watcher"}, full : BOOLEAN, swept : BOOLEAN, tries : Nat]
SearchRecord == [pc : {"idle", "count", "embed", "check", "lock", "load", "read"},
                 project : AnyProject, tries : Nat]
AskRecord == [pc : {"idle", "served", "missed", "executed"}, project : AnyProject,
              question : Question, version : Nat, late : BOOLEAN]
EntryRecord == [project : Project, question : Question, version : Nat, late : BOOLEAN, at : Nat]

GraphType == committed \in [Project -> Nat] /\ uncleared \subseteq Project /\ unswept \subseteq Project
RunType == runs \in Nat /\ run \in RunRecord /\ (run.pc # "idle" => run.project \in Project)
SlotType == slot \in [project : AnyProject, version : Nat]
SearchType ==
    /\ search \in [Searcher -> SearchRecord]
    /\ \A s \in Searcher : search[s].pc # "idle" => search[s].project \in Project
AskType ==
    /\ ask \in [Asker -> AskRecord]
    /\ \A a \in Asker : ask[a].pc \in {"missed", "executed"} => ask[a].project \in Project
EntriesType == now \in Nat /\ entries \in Seq(EntryRecord)

Types == GraphType /\ RunType /\ SlotType /\ SearchType /\ AskType /\ EntriesType

\* The write lock is held alone.
LockExcludes == \A s \in Loading : Reading = {} /\ Loading = {s}

\* A run that has swept the slot finds its own vectors in it or another project's.
SweptSlotIsOwn ==
    run.swept /\ run.pc \in {"acquire", "relock", "end"} /\ slot.project = run.project
        => slot.version = runs

\* What CachedAnswersAreCurrent says of an entry, of an answer not stored yet.
Current(x) ==
    \/ x.version = committed[x.project] \/ x.late
    \/ run.project = x.project /\ run.pc \in {"identity", "clear"}
    \/ x.project \in uncleared

ReadIsCurrent == \A a \in Asker : ask[a].pc = "executed" => Current(ask[a])

\* No answer was stored in the future.
StoredBefore == \A i \in DOMAIN entries : entries[i].at <= now

SlotInv == LockExcludes /\ SearchesReadTheirProject /\ SweptSlotIsOwn /\ SlotIsCurrent
AnswersInv == ReadIsCurrent /\ CachedAnswersAreCurrent
OrderInv == HeadIsOldest /\ StoredBefore
CachesInv == Types /\ SlotInv /\ AnswersInv /\ OrderInv

-----------------------------------------------------------------------------
(* The list of entries.                                                    *)

\* What DropAt leaves.
LEMMA DropAtLeaves ==
    ASSUME NEW S, NEW es \in Seq(S), NEW i \in DOMAIN es
    PROVE  /\ DropAt(es, i) \in Seq(S)
           /\ Len(DropAt(es, i)) = Len(es) - 1
           /\ \A j \in 1..(Len(es) - 1) : DropAt(es, i)[j] = IF j < i THEN es[j] ELSE es[j + 1]
  <1> DEFINE before == SubSeq(es, 1, i - 1)  after == SubSeq(es, i + 1, Len(es))
  <1>0. i \in 1..Len(es) /\ Len(es) \in Nat /\ DOMAIN es = 1..Len(es) OBVIOUS
  <1>1. /\ before \in Seq(S) /\ Len(before) = i - 1
        /\ \A j \in 1..(i - 1) : before[j] = es[j]
    BY <1>0, SubSeqProperties
  <1>2. /\ after \in Seq(S) /\ Len(after) = Len(es) - i
        /\ \A j \in 1..(Len(es) - i) : after[j] = es[i + j]
    BY <1>0, SubSeqProperties
  <1> HIDE DEF before, after
  <1>3. /\ before \o after \in Seq(S) /\ Len(before \o after) = Len(before) + Len(after)
        /\ \A j \in 1..(Len(before) + Len(after)) :
              (before \o after)[j] = IF j <= Len(before) THEN before[j] ELSE after[j - Len(before)]
    BY <1>1, <1>2, ConcatProperties, Zenon
  <1>4. ASSUME NEW j \in 1..(Len(es) - 1)
        PROVE  (before \o after)[j] = IF j < i THEN es[j] ELSE es[j + 1]
    <2>1. j \in 1..(Len(before) + Len(after)) BY <1>0, <1>1, <1>2
    <2>2. CASE j < i
      <3>1. j \in 1..(i - 1) /\ j <= Len(before) BY <1>0, <1>1, <2>2
      <3> QED BY <1>1, <1>3, <2>1, <2>2, <3>1
    <2>3. CASE ~(j < i)
      <3>1. j - Len(before) \in 1..(Len(es) - i) /\ ~(j <= Len(before)) BY <1>0, <1>1, <2>3
      <3>2. i + (j - Len(before)) = j + 1 BY <1>0, <1>1
      <3> QED BY <1>2, <1>3, <2>1, <2>3, <3>1, <3>2
    <2> QED BY <2>2, <2>3
  <1>5. DropAt(es, i) = before \o after BY DEF DropAt, before, after
  <1>6. Len(before) + Len(after) = Len(es) - 1 BY <1>0, <1>1, <1>2
  <1> QED BY <1>3, <1>4, <1>5, <1>6

\* What Set makes of es: the entry at gone is missing (0: none is), and e is last.
Pushed(new, es, gone, e) ==
    /\ Len(new) = IF gone = 0 THEN Len(es) + 1 ELSE Len(es)
    /\ new[Len(new)] = e
    /\ \A j \in 1..(Len(new) - 1) :
          new[j] = IF gone = 0 \/ j < gone THEN es[j] ELSE es[j + 1]

\* Where an entry that is not the last one was.
Was(i, gone) == IF gone = 0 \/ i < gone THEN i ELSE i + 1

LEMMA PushedFrom ==
    ASSUME NEW S, NEW es \in Seq(S), NEW new \in Seq(S), NEW gone \in 0..Len(es), NEW e,
           Pushed(new, es, gone, e), NEW i \in DOMAIN new
    PROVE  \/ i = Len(new) /\ new[i] = e
           \/ /\ i # Len(new) /\ Was(i, gone) \in DOMAIN es /\ Was(i, gone) # gone
              /\ new[i] = es[Was(i, gone)]
  <1>1. Len(es) \in Nat /\ Len(new) \in Nat /\ i \in 1..Len(new) /\ DOMAIN es = 1..Len(es) OBVIOUS
  <1>2. CASE i = Len(new) BY <1>2 DEF Pushed
  <1>3. CASE i # Len(new)
    <2>1. i \in 1..(Len(new) - 1) BY <1>1, <1>3
    <2>2. new[i] = IF gone = 0 \/ i < gone THEN es[i] ELSE es[i + 1] BY <2>1 DEF Pushed
    <2>3. new[i] = es[Was(i, gone)] BY <2>2, Zenon DEF Was
    <2>4. Len(new) = IF gone = 0 THEN Len(es) + 1 ELSE Len(es) BY DEF Pushed
    <2>5. Was(i, gone) \in 1..Len(es) /\ Was(i, gone) # gone BY <1>1, <2>1, <2>4 DEF Was
    <2> QED BY <1>1, <1>3, <2>3, <2>5
  <1> QED BY <1>2, <1>3

\* A key that was there moves to the tail.
LEMMA RenewedLeaves ==
    ASSUME NEW S, NEW es \in Seq(S), NEW i \in DOMAIN es, NEW e \in S
    PROVE  Renewed(es, i, e) \in Seq(S) /\ Pushed(Renewed(es, i, e), es, i, e)
  <1> DEFINE rest == DropAt(es, i)
  <1>0. Len(es) \in Nat /\ i # 0 OBVIOUS
  <1>1. /\ rest \in Seq(S) /\ Len(rest) = Len(es) - 1
        /\ \A j \in 1..(Len(es) - 1) : rest[j] = IF j < i THEN es[j] ELSE es[j + 1]
    BY DropAtLeaves, Zenon
  <1>2. Renewed(es, i, e) = Append(rest, e) BY DEF Renewed
  <1> HIDE DEF rest
  <1>3. /\ Append(rest, e) \in Seq(S) /\ Len(Append(rest, e)) = Len(es)
        /\ Append(rest, e)[Len(es)] = e
        /\ \A j \in 1..(Len(es) - 1) : Append(rest, e)[j] = rest[j]
    BY <1>0, <1>1
  <1>4. \A j \in 1..(Len(es) - 1) : Append(rest, e)[j] = IF j < i THEN es[j] ELSE es[j + 1]
    BY <1>1, <1>3, Zenon
  <1> QED BY <1>0, <1>2, <1>3, <1>4, Zenon DEF Pushed

\* For a new key the head goes when the cache is full.
LEMMA AddedLeaves ==
    ASSUME NEW S, NEW es \in Seq(S), NEW e \in S
    PROVE  /\ Added(es, e) \in Seq(S)
           /\ Len(es) < CacheSize => Pushed(Added(es, e), es, 0, e)
           /\ Len(es) = CacheSize => Pushed(Added(es, e), es, 1, e)
  <1>0. CacheSize \in Nat \ {0} /\ Len(es) \in Nat BY CachesAssumption
  <1>1. CASE Len(es) >= CacheSize
    <2> DEFINE rest == Tail(es)
    <2>1. /\ rest \in Seq(S) /\ Len(rest) = Len(es) - 1
          /\ \A j \in 1..(Len(es) - 1) : rest[j] = es[j + 1]
      BY <1>0, <1>1
    <2>2. Added(es, e) = Append(rest, e) BY <1>0, <1>1 DEF Added
    <2> HIDE DEF rest
    <2>3. /\ Append(rest, e) \in Seq(S) /\ Len(Append(rest, e)) = Len(es)
          /\ Append(rest, e)[Len(es)] = e
          /\ \A j \in 1..(Len(es) - 1) : Append(rest, e)[j] = es[j + 1]
      BY <1>0, <2>1
    <2>4. /\ ~(Len(es) < CacheSize) /\ 1 # 0
          /\ \A j \in 1..(Len(es) - 1) : ~(j < 1)
      BY <1>0, <1>1
    <2>5. Pushed(Append(rest, e), es, 1, e) BY <2>3, <2>4, Zenon DEF Pushed
    <2> QED BY <2>2, <2>3, <2>4, <2>5, Zenon
  <1>2. CASE Len(es) < CacheSize
    <2>1. Added(es, e) = Append(es, e) BY <1>0, <1>2 DEF Added
    <2>2. /\ Append(es, e) \in Seq(S) /\ Len(Append(es, e)) = Len(es) + 1
          /\ Append(es, e)[Len(es) + 1] = e /\ Len(es) # CacheSize
          /\ \A j \in 1..(Len(Append(es, e)) - 1) : Append(es, e)[j] = es[j]
      BY <1>0, <1>2
    <2>3. Pushed(Append(es, e), es, 0, e) BY <2>2, Zenon DEF Pushed
    <2> QED BY <2>1, <2>2, <2>3, Zenon
  <1> QED BY <1>0, <1>1, <1>2

-----------------------------------------------------------------------------
(* Types.                                                                  *)

LEMMA NoAskType == NoAsk \in AskRecord
  BY CachesAssumption DEF NoAsk, AskRecord, AnyProject

\* The caller's own steps keep a record of its kind.
LEMMA SearchTypeStep ==
    ASSUME SearchType, NEW s \in Searcher,
           SearchStep(s) \/ \E p \in Project : BeginSearch(s, p)
    PROVE  SearchType'
  <1> USE DEF SearchType, SearchRecord, AnyProject, Goto
  <1>1. ASSUME NEW p \in Project, BeginSearch(s, p) PROVE SearchType' BY <1>1 DEF BeginSearch
  <1>2. ASSUME EmbeddingCount(s) PROVE SearchType' BY <1>2 DEF EmbeddingCount
  <1>3. ASSUME EmbedQuery(s) PROVE SearchType' BY <1>3 DEF EmbedQuery
  <1>4. ASSUME Check(s) PROVE SearchType' BY <1>4 DEF Check
  <1>5. ASSUME Lock(s) PROVE SearchType' BY <1>5 DEF Lock
  <1>6. ASSUME Load(s) PROVE SearchType' BY <1>6 DEF Load
  <1>7. ASSUME EndSearch(s) PROVE SearchType' BY <1>7 DEF EndSearch, NoSearch
  <1> QED BY <1>1, <1>2, <1>3, <1>4, <1>5, <1>6, <1>7 DEF SearchStep
\* The call of a miss, with the key it looked up.
LEMMA MissAsks ==
    ASSUME NEW a \in Asker, NEW k \in Key, Miss(a, k)
    PROVE  \E call \in AskRecord : /\ call.pc = "missed" /\ call.project \in Project
                                   /\ ask' = [ask EXCEPT ![a] = call]
  <1> DEFINE call == [NoAsk EXCEPT !.pc = "missed", !.project = k[1], !.question = k[2]]
  <1>1. k[1] \in Project /\ k[2] \in Question BY DEF Key
  <1>2. call \in AskRecord /\ call.pc = "missed" /\ call.project \in Project
    BY <1>1, NoAskType DEF AskRecord, AnyProject
  <1>3. ask' = [ask EXCEPT ![a] = call] BY DEF Miss
  <1> QED BY <1>2, <1>3

LEMMA AskTypeStep ==
    ASSUME AskType, GraphType, NEW a \in Asker,
           AskStep(a) \/ \E k \in Key : Hit(a, k) \/ Miss(a, k)
    PROVE  AskType'
  <1>a. NoAsk \in AskRecord /\ NoAsk.pc = "idle" BY NoAskType DEF NoAsk
  <1> USE DEF AskType, AskRecord, AnyProject
  <1>1. ASSUME NEW k \in Key, Hit(a, k) PROVE AskType' BY <1>1 DEF Hit
  <1>2. ASSUME NEW k \in Key, Miss(a, k) PROVE AskType'
    BY <1>2, MissAsks
  <1>3. ASSUME Execute(a) PROVE AskType'
    <2>1. committed[ask[a].project] \in Nat BY <1>3 DEF Execute, GraphType
    <2> QED BY <1>3, <1>a, <2>1 DEF Execute
  <1>4. ASSUME Store(a) PROVE AskType' BY <1>4, <1>a DEF Store
  <1>5. ASSUME EndAsk(a) PROVE AskType' BY <1>5, <1>a DEF EndAsk
  <1> QED BY <1>1, <1>2, <1>3, <1>4, <1>5 DEF AskStep

LEMMA RunTypeStep ==
    ASSUME RunType,
           RunStep \/ \E p \in Project, by \in {"tool", "watcher"}, full \in BOOLEAN :
                          RequestRun(p, by, full)
    PROVE  RunType'
  <1> USE DEF RunType, RunRecord, AnyProject, Within, RunTo
  <1>1. ASSUME NEW p \in Project, NEW by \in {"tool", "watcher"}, NEW full \in BOOLEAN,
               RequestRun(p, by, full)
        PROVE  RunType'
    BY <1>1 DEF RequestRun
  <1>2. ASSUME PassEmbeddings PROVE RunType' BY <1>2 DEF PassEmbeddings, AfterBatches
  <1>3. ASSUME InvalidateEmbeddingCache PROVE RunType' BY <1>3 DEF InvalidateEmbeddingCache
  <1>4. ASSUME SkipSimilarity PROVE RunType' BY <1>4 DEF SkipSimilarity
  <1>5. ASSUME AcquireInRun PROVE RunType' BY <1>5 DEF AcquireInRun
  <1>6. ASSUME LoadInRun PROVE RunType'
    <2>1. run.tries + 1 \in Nat OBVIOUS
    <2>2. run' = [run EXCEPT !.pc = "acquire", !.tries = run.tries + 1] BY <1>6 DEF LoadInRun
    <2>3. run.pc # "idle" /\ runs' = runs BY <1>6 DEF LoadInRun
    <2> QED BY <2>1, <2>2, <2>3
  <1>7. ASSUME Commit PROVE RunType' BY <1>7 DEF Commit
  <1>8. ASSUME Rollback PROVE RunType' BY <1>8 DEF Rollback, NoRun
  <1>9. ASSUME StoreIdentity PROVE RunType' BY <1>9 DEF StoreIdentity, AfterIdentity
  <1>10. ASSUME Invalidate PROVE RunType' BY <1>10 DEF Invalidate, NoRun
  <1> QED BY <1>1, <1>2, <1>3, <1>4, <1>5, <1>6, <1>7, <1>8, <1>9, <1>10 DEF RunStep
\* What Set stores is the answer of the asker, at this time.
Answer(a) ==
    [project |-> ask[a].project, question |-> ask[a].question, version |-> ask[a].version,
     late |-> ask[a].late, at |-> now]

LEMMA Stores ==
    ASSUME AskType, EntriesType, NEW a \in Asker, Store(a)
    PROVE  /\ Answer(a) \in EntryRecord
           /\ \/ /\ Holding(<<ask[a].project, ask[a].question>>) = {}
                 /\ entries' = Added(entries, Answer(a))
              \/ \E i \in Holding(<<ask[a].project, ask[a].question>>) :
                    entries' = Renewed(entries, i, Answer(a))
  BY DEF Store, Answer, AskType, AskRecord, EntriesType, EntryRecord

LEMMA TypeStep == Types /\ HeadIsOldest /\ [CachesNext]_cacheVars => Types'
  <1> SUFFICES ASSUME Types, HeadIsOldest, [CachesNext]_cacheVars PROVE Types' OBVIOUS
  <1> USE DEF Types
  <1>1. ASSUME NEW s \in Searcher, SearchStep(s) \/ \E p \in Project : BeginSearch(s, p)
        PROVE  Types'
    <2>1. SearchType' BY <1>1, SearchTypeStep
    <2>2. SlotType'
      BY <1>1 DEF SearchStep, BeginSearch, EmbeddingCount, EmbedQuery, Check, Lock, Load, EndSearch, SlotType,
                  SearchType, SearchRecord, GraphType, AnyProject
    <2>3. GraphType' /\ RunType' /\ AskType' /\ EntriesType'
      BY <1>1 DEF SearchStep, BeginSearch, EmbeddingCount, EmbedQuery, Check, Lock, Load, EndSearch, SearchOnly,
                  GraphType, RunType, AskType, EntriesType
    <2> QED BY <2>1, <2>2, <2>3
  <1>2. ASSUME NEW a \in Asker, AskStep(a) \/ \E k \in Key : Hit(a, k) \/ Miss(a, k)
        PROVE  Types'
    <2>1. AskType' BY <1>2, AskTypeStep
    <2>2. GraphType' /\ RunType' /\ SlotType' /\ SearchType' /\ now' = now
      BY <1>2 DEF AskStep, Hit, Miss, Execute, Store, EndAsk, AskOnly,
                  GraphType, RunType, SlotType, SearchType
    <2>3. CASE Store(a)
      <3>1. entries' \in Seq(EntryRecord)
        <4>1. \A i \in DOMAIN entries : Renewed(entries, i, Answer(a)) \in Seq(EntryRecord)
          BY <2>3, Stores, RenewedLeaves DEF EntriesType
        <4>2. Added(entries, Answer(a)) \in Seq(EntryRecord)
          BY <2>3, Stores, AddedLeaves DEF EntriesType, HeadIsOldest
        <4> QED BY <2>3, <4>1, <4>2, Stores DEF Holding
      <3> QED BY <2>1, <2>2, <3>1 DEF EntriesType
    <2>4. CASE UNCHANGED entries BY <2>1, <2>2, <2>4 DEF EntriesType
    <2> QED BY <1>2, <2>3, <2>4 DEF AskStep, Hit, Miss, Execute, EndAsk
  <1>3. ASSUME RunStep \/ \E p \in Project, by \in {"tool", "watcher"}, full \in BOOLEAN :
                              RequestRun(p, by, full)
        PROVE  Types'
    <2>1. RunType' BY <1>3, RunTypeStep
    <2> USE DEF RunStep, RequestRun, PassEmbeddings, InvalidateEmbeddingCache, SkipSimilarity,
                AcquireInRun, LoadInRun, Commit, Rollback, StoreIdentity, Invalidate, RunOnly,
                Untouched, clients
    <2>2. SearchType' BY <1>3 DEF SearchType
    <2>3. SlotType'
      <3>1. CASE LoadInRun BY <3>1 DEF SlotType, RunType, AnyProject
      <3>2. CASE InvalidateEmbeddingCache BY <3>2 DEF SlotType, NoSlot, AnyProject
      <3>3. CASE slot' = slot BY <3>3 DEF SlotType
      <3> QED BY <1>3, <3>1, <3>2, <3>3
    <2>4. GraphType' BY <1>3 DEF GraphType, RunType
    <2>5. EntriesType'
      <3>1. now' = now /\ (entries' = entries \/ entries' = <<>>) BY <1>3
      <3>2. <<>> \in Seq(EntryRecord) OBVIOUS
      <3> QED BY <3>1, <3>2 DEF EntriesType
    <2>6. AskType'
      <3>1. CASE Invalidate BY <3>1 DEF AskType, AskRecord
      <3>2. CASE ask' = ask BY <3>2 DEF AskType
      <3> QED BY <1>3, <3>1, <3>2
    <2> QED BY <2>1, <2>2, <2>3, <2>4, <2>5, <2>6
  <1>4. ASSUME Tick PROVE Types'
    BY <1>4 DEF Tick, clients, GraphType, RunType, SlotType, SearchType, AskType, EntriesType
  <1>5. ASSUME UNCHANGED cacheVars PROVE Types'
    BY <1>5 DEF cacheVars, GraphType, RunType, SlotType, SearchType, AskType, EntriesType
  <1> QED BY <1>1, <1>2, <1>3, <1>4, <1>5 DEF CachesNext
-----------------------------------------------------------------------------
(* The slot.                                                               *)

\* The lock: nobody reads while someone loads, and what is read stays.
LEMMA LockStep ==
    ASSUME Types, LockExcludes, SearchesReadTheirProject, [CachesNext]_cacheVars
    PROVE  LockExcludes' /\ SearchesReadTheirProject'
  <1> USE DEF LockExcludes, SearchesReadTheirProject, Loading, Reading, Goto, Types, SearchType,
              SearchRecord
  <1>1. ASSUME NEW s \in Searcher, NEW p \in Project, BeginSearch(s, p)
        PROVE  LockExcludes' /\ SearchesReadTheirProject'
    BY <1>1 DEF BeginSearch
  <1>2. ASSUME NEW s \in Searcher, EmbeddingCount(s) PROVE LockExcludes' /\ SearchesReadTheirProject'
    BY <1>2 DEF EmbeddingCount
  <1>3. ASSUME NEW s \in Searcher, EmbedQuery(s) PROVE LockExcludes' /\ SearchesReadTheirProject'
    BY <1>3 DEF EmbedQuery
  <1>4. ASSUME NEW s \in Searcher, Check(s) PROVE LockExcludes' /\ SearchesReadTheirProject'
    BY <1>4 DEF Check, CanRLock, SlotServes
  <1>5. ASSUME NEW s \in Searcher, Lock(s) PROVE LockExcludes' /\ SearchesReadTheirProject'
    BY <1>5 DEF Lock, CanLock
  <1>6. ASSUME NEW s \in Searcher, Load(s) PROVE LockExcludes' /\ SearchesReadTheirProject'
    BY <1>6 DEF Load
  <1>7. ASSUME NEW s \in Searcher, EndSearch(s) PROVE LockExcludes' /\ SearchesReadTheirProject'
    BY <1>7 DEF EndSearch, NoSearch
  <1>8. CASE UNCHANGED <<slot, search>> BY <1>8
  <1>9. CASE (InvalidateEmbeddingCache \/ LoadInRun) /\ UNCHANGED search
    BY <1>9 DEF InvalidateEmbeddingCache, LoadInRun, CanLock
  <1>10. ASSUME RunStep PROVE LockExcludes' /\ SearchesReadTheirProject'
    BY <1>8, <1>9, <1>10 DEF RunStep, PassEmbeddings, InvalidateEmbeddingCache, SkipSimilarity,
         AcquireInRun, LoadInRun, Commit, Rollback, StoreIdentity, Invalidate, RunOnly, Untouched, clients
  <1>11. ASSUME NEW p \in Project, NEW by \in {"tool", "watcher"}, NEW full \in BOOLEAN,
                RequestRun(p, by, full)
         PROVE  LockExcludes' /\ SearchesReadTheirProject'
    BY <1>8, <1>11 DEF RequestRun, RunOnly, Untouched, clients
  <1>12. ASSUME NEW a \in Asker, AskStep(a) \/ \E k \in Key : Hit(a, k) \/ Miss(a, k)
         PROVE  LockExcludes' /\ SearchesReadTheirProject'
    BY <1>8, <1>12 DEF AskStep, Hit, Miss, Execute, Store, EndAsk, AskOnly
  <1> QED BY <1>1, <1>2, <1>3, <1>4, <1>5, <1>6, <1>7, <1>8, <1>10, <1>11, <1>12
          DEF CachesNext, SearchStep, Tick, clients, cacheVars

\* The vectors: as the graph, but for the project's own transaction.
LEMMA SlotStep ==
    ASSUME Types, SweptSlotIsOwn, SlotIsCurrent, [CachesNext]_cacheVars
    PROVE  SweptSlotIsOwn' /\ SlotIsCurrent'
  <1> USE DEF SweptSlotIsOwn, SlotIsCurrent, InTransaction, Types, RunType, SlotType,
              GraphType, AnyProject
  <1>1. ASSUME NEW s \in Searcher, Load(s) PROVE SweptSlotIsOwn' /\ SlotIsCurrent'
    BY <1>1 DEF Load, SearchType, SearchOnly
  <1>2. CASE UNCHANGED <<committed, runs, run, slot, unswept>> BY <1>2
  <1>3. ASSUME NEW s \in Searcher, SearchStep(s) \/ \E p \in Project : BeginSearch(s, p)
        PROVE  SweptSlotIsOwn' /\ SlotIsCurrent'
    BY <1>1, <1>2, <1>3 DEF SearchStep, BeginSearch, EmbeddingCount, EmbedQuery, Check, Lock, EndSearch, SearchOnly
  <1>4. ASSUME NEW a \in Asker, AskStep(a) \/ \E k \in Key : Hit(a, k) \/ Miss(a, k)
        PROVE  SweptSlotIsOwn' /\ SlotIsCurrent'
    BY <1>2, <1>4 DEF AskStep, Hit, Miss, Execute, Store, EndAsk, AskOnly
  <1>5. ASSUME NEW p \in Project, NEW by \in {"tool", "watcher"}, NEW full \in BOOLEAN,
               RequestRun(p, by, full)
        PROVE  SweptSlotIsOwn' /\ SlotIsCurrent'
    BY <1>5 DEF RequestRun, Untouched
  <1>6. ASSUME RunStep PROVE SweptSlotIsOwn' /\ SlotIsCurrent'
    <2> USE DEF RunTo, RunRecord, Within, RunOnly, Untouched
    <2>1. CASE PassEmbeddings BY <2>1 DEF PassEmbeddings, AfterBatches
    <2>2. CASE InvalidateEmbeddingCache BY <2>2, CachesAssumption DEF InvalidateEmbeddingCache, NoSlot
    <2>3. CASE SkipSimilarity BY <2>3 DEF SkipSimilarity
    <2>4. CASE AcquireInRun BY <2>4 DEF AcquireInRun
    <2>5. CASE LoadInRun BY <2>5 DEF LoadInRun
    <2>6. CASE Commit BY <2>6 DEF Commit
    <2>7. CASE Rollback BY <2>7 DEF Rollback, NoRun
    <2>8. CASE StoreIdentity BY <2>8 DEF StoreIdentity, AfterIdentity
    <2>9. CASE Invalidate BY <2>9 DEF Invalidate, NoRun
    <2> QED BY <1>6, <2>1, <2>2, <2>3, <2>4, <2>5, <2>6, <2>7, <2>8, <2>9 DEF RunStep
  <1> QED BY <1>2, <1>3, <1>4, <1>5, <1>6 DEF CachesNext, Tick, cacheVars
-----------------------------------------------------------------------------
(* The query cache.                                                        *)

\* What Store does to the entries: the one that goes is the key's own, if it has
\* one, and there is never one too many.
LEMMA StoreLeaves ==
    ASSUME Types, HeadIsOldest, NEW a \in Asker, Store(a)
    PROVE  \E gone \in 0..Len(entries) :
              /\ Pushed(entries', entries, gone, Answer(a))
              /\ Len(entries') <= CacheSize
              /\ \A i \in Holding(<<ask[a].project, ask[a].question>>) : i = gone
  <1> DEFINE k == <<ask[a].project, ask[a].question>>
             e == Answer(a)
             size == Len(entries)
  <1>0. entries \in Seq(EntryRecord) /\ Len(entries) <= CacheSize
    BY DEF Types, EntriesType, HeadIsOldest
  <1>1. e \in EntryRecord BY Stores DEF Types
  <1>n. Len(entries) \in Nat /\ CacheSize \in Nat \ {0} /\ DOMAIN entries = 1..Len(entries)
    BY <1>0, CachesAssumption
  <1>2. CASE Holding(k) = {} /\ entries' = Added(entries, e)
    <2>1. CASE Len(entries) < CacheSize
      <3>1. Pushed(entries', entries, 0, e) BY <1>0, <1>1, <1>2, <2>1, AddedLeaves
      <3>2. Len(entries') <= CacheSize BY <1>n, <2>1, <3>1 DEF Pushed
      <3> QED BY <1>n, <1>2, <3>1, <3>2
    <2>2. CASE Len(entries) = CacheSize
      <3>1. Pushed(entries', entries, 1, e) BY <1>0, <1>1, <1>2, <2>2, AddedLeaves
      <3>2. Len(entries') <= CacheSize BY <1>n, <2>2, <3>1 DEF Pushed
      <3> QED BY <1>n, <1>2, <2>2, <3>1, <3>2
    <2>3. Len(entries) < CacheSize \/ Len(entries) = CacheSize
      <3>1. size \in Nat /\ CacheSize \in Nat /\ size <= CacheSize BY <1>0, <1>n
      <3> HIDE DEF size
      <3>2. size < CacheSize \/ size = CacheSize BY <3>1
      <3> QED BY <3>2 DEF size
    <2> QED BY <2>1, <2>2, <2>3
  <1>3. ASSUME NEW i \in Holding(k), entries' = Renewed(entries, i, e)
        PROVE  /\ i \in 0..Len(entries) /\ Pushed(entries', entries, i, e)
               /\ Len(entries') <= CacheSize /\ \A h \in Holding(k) : h = i
    <2>1. i \in DOMAIN entries BY DEF Holding
    <2>2. Pushed(entries', entries, i, e) BY <1>0, <1>1, <1>3, <2>1, RenewedLeaves
    <2>3. i \in 0..Len(entries) /\ Len(entries') <= CacheSize BY <1>0, <1>n, <2>1, <2>2 DEF Pushed
    <2>4. ASSUME NEW h \in Holding(k), h # i PROVE FALSE
      <3>1. /\ h \in DOMAIN entries
            /\ <<entries[h].project, entries[h].question>> = <<entries[i].project, entries[i].question>>
        BY DEF Holding
      <3>2. h < i \/ i < h BY <1>n, <2>1, <2>4, <3>1
      <3> QED BY <2>1, <3>1, <3>2 DEF HeadIsOldest
    <2> QED BY <2>2, <2>3, <2>4
  <1> QED BY <1>2, <1>3, Stores DEF Types
\* An answer that is current before a step of someone else is so after it.
LEMMA StaysCurrent ==
    ASSUME Types, NEW x, x.project \in Project, Current(x),
           \/ UNCHANGED <<committed, run, uncleared>>
           \/ /\ RunStep /\ ~Invalidate
           \/ \E p \in Project, by \in {"tool", "watcher"}, full \in BOOLEAN : RequestRun(p, by, full)
    PROVE  Current(x)'
  <1> USE DEF Current, Types, RunType, GraphType
  <1>1. CASE UNCHANGED <<committed, run, uncleared>> BY <1>1
  <1>2. ASSUME NEW p \in Project, NEW by \in {"tool", "watcher"}, NEW full \in BOOLEAN,
               RequestRun(p, by, full)
        PROVE  Current(x)'
    BY <1>2 DEF RequestRun, Untouched
  <1>3. CASE RunStep /\ ~Invalidate
    <2> USE DEF RunTo, RunRecord, Within, RunOnly, Untouched
    <2>1. CASE PassEmbeddings BY <2>1 DEF PassEmbeddings
    <2>2. CASE InvalidateEmbeddingCache BY <2>2 DEF InvalidateEmbeddingCache
    <2>3. CASE SkipSimilarity BY <2>3 DEF SkipSimilarity
    <2>4. CASE AcquireInRun BY <2>4 DEF AcquireInRun
    <2>5. CASE LoadInRun BY <2>5 DEF LoadInRun
    <2>6. CASE Commit BY <2>6 DEF Commit
    <2>7. CASE Rollback BY <2>7 DEF Rollback
    <2>8. CASE StoreIdentity BY <2>8 DEF StoreIdentity, AfterIdentity
    <2> QED BY <1>3, <2>1, <2>2, <2>3, <2>4, <2>5, <2>6, <2>7, <2>8 DEF RunStep
  <1> QED BY <1>1, <1>2, <1>3
\* The answers: an entry in the cache, and one that is read and not stored.
LEMMA AnswersStep ==
    ASSUME Types, HeadIsOldest, AnswersInv, [CachesNext]_cacheVars
    PROVE  AnswersInv'
  <1> DEFINE Quiet == \/ UNCHANGED <<committed, run, uncleared>>
                      \/ RunStep /\ ~Invalidate
                      \/ \E p \in Project, by \in {"tool", "watcher"}, full \in BOOLEAN :
                            RequestRun(p, by, full)
             Fine(x) == \/ x.version = committed'[x.project] \/ x.late
                        \/ run'.project = x.project /\ run'.pc \in {"identity", "clear"}
                        \/ x.project \in uncleared'
  <1>0. /\ \A i \in DOMAIN entries : entries[i].project \in Project
        /\ \A a \in Asker : ask[a].pc \in {"missed", "executed"} => ask[a].project \in Project
    <2>1. \A i \in DOMAIN entries : entries[i] \in EntryRecord BY DEF Types, EntriesType
    <2> QED BY <2>1 DEF EntryRecord, Types, AskType
  <1>1. ASSUME Quiet, NEW i \in DOMAIN entries PROVE Fine(entries[i])
    <2>1. Current(entries[i]) BY DEF AnswersInv, CachedAnswersAreCurrent, Current
    <2> QED BY <1>0, <1>1, <2>1, StaysCurrent DEF Current
  <1>2. ASSUME Quiet, NEW a \in Asker, ask[a].pc = "executed" PROVE Fine(ask[a])
    <2>1. Current(ask[a]) BY <1>2 DEF AnswersInv, ReadIsCurrent
    <2> QED BY <1>0, <1>2, <2>1, StaysCurrent DEF Current
  <1>3. CASE Quiet /\ UNCHANGED <<entries, ask>>
    BY <1>1, <1>2, <1>3 DEF AnswersInv, ReadIsCurrent, CachedAnswersAreCurrent, Current
  <1>4. CASE Invalidate
    <2>1. entries' = <<>> /\ DOMAIN entries' = {} BY <1>4 DEF Invalidate
    <2>2. \A a \in Asker : ask'[a].pc = "executed" => ask'[a].late
      BY <1>4 DEF Invalidate, Types, AskType, AskRecord
    <2> QED BY <2>1, <2>2 DEF AnswersInv, ReadIsCurrent, CachedAnswersAreCurrent, Current
  <1>5. ASSUME NEW a \in Asker, AskStep(a) \/ \E k \in Key : Hit(a, k) \/ Miss(a, k)
        PROVE  AnswersInv'
    <2>1. Quiet /\ UNCHANGED <<committed, run, uncleared>>
      BY <1>5 DEF AskStep, Hit, Miss, Execute, Store, EndAsk, AskOnly
    <2>2. \A b \in Asker : ask'[b].pc = "executed" => Fine(ask'[b])
      <3> SUFFICES ASSUME NEW b \in Asker, ask'[b].pc = "executed" PROVE Fine(ask'[b]) OBVIOUS
      <3>1. ask'[b] = ask[b] \/ ask'[b].version = committed[ask'[b].project]
        <4> USE DEF Types, AskType
        <4>1. CASE \E k \in Key : Hit(a, k) BY <4>1 DEF Hit
        <4>2. CASE \E k \in Key : Miss(a, k)
          <5>1. PICK call \in AskRecord : call.pc = "missed" /\ ask' = [ask EXCEPT ![a] = call]
            BY <4>2, MissAsks
          <5>2. ask'[a].pc = "missed" /\ (b # a => ask'[b] = ask[b]) BY <5>1
          <5> QED BY <5>2
        <4>3. CASE Execute(a) BY <4>3 DEF Execute, NoAsk, AskRecord
        <4>4. CASE Store(a) BY <4>4 DEF Store, NoAsk
        <4>5. CASE EndAsk(a) BY <4>5 DEF EndAsk, NoAsk
        <4> QED BY <1>5, <4>1, <4>2, <4>3, <4>4, <4>5 DEF AskStep
      <3> QED BY <1>2, <2>1, <3>1
    <2>3. \A i \in DOMAIN entries' : Fine(entries'[i])
      <3>1. CASE Store(a)
        <4>1. PICK gone \in 0..Len(entries) : Pushed(entries', entries, gone, Answer(a))
          BY <3>1, StoreLeaves
        <4>2. Fine(Answer(a)) BY <1>2, <2>1, <3>1 DEF Store, Answer
        <4>3. entries \in Seq(EntryRecord) /\ entries' \in Seq(EntryRecord)
          BY TypeStep DEF Types, EntriesType
        <4>4. \A i \in DOMAIN entries' :
                 entries'[i] = Answer(a) \/ \E j \in DOMAIN entries : entries'[i] = entries[j]
          BY <4>1, <4>3, PushedFrom
        <4> QED BY <1>1, <2>1, <4>2, <4>4
      <3>2. CASE UNCHANGED entries BY <1>1, <2>1, <3>2
      <3> QED BY <1>5, <3>1, <3>2 DEF AskStep, Hit, Miss, Execute, EndAsk
    <2> QED BY <2>1, <2>2, <2>3 DEF AnswersInv, ReadIsCurrent, CachedAnswersAreCurrent, Current
  <1>6. ASSUME NEW s \in Searcher, SearchStep(s) \/ \E p \in Project : BeginSearch(s, p)
        PROVE  AnswersInv'
    BY <1>3, <1>6 DEF SearchStep, BeginSearch, EmbeddingCount, EmbedQuery, Check, Lock, Load, EndSearch, SearchOnly
  <1>7. ASSUME RunStep, ~Invalidate PROVE AnswersInv'
    <2>1. UNCHANGED <<entries, ask>>
      BY <1>7 DEF RunStep, PassEmbeddings, InvalidateEmbeddingCache, SkipSimilarity, AcquireInRun,
                  LoadInRun, Commit, Rollback, StoreIdentity, RunOnly, Untouched, clients
    <2> QED BY <1>3, <1>7, <2>1
  <1>8. ASSUME NEW p \in Project, NEW by \in {"tool", "watcher"}, NEW full \in BOOLEAN,
               RequestRun(p, by, full)
        PROVE  AnswersInv'
    BY <1>3, <1>8 DEF RequestRun, RunOnly, Untouched, clients
  <1>9. CASE Tick BY <1>3, <1>9 DEF Tick, clients
  <1>10. CASE UNCHANGED cacheVars BY <1>3, <1>10 DEF cacheVars
  <1> QED BY <1>4, <1>5, <1>6, <1>7, <1>8, <1>9, <1>10 DEF CachesNext
\* The list is the order in time, one entry for a key.
LEMMA OrderStep ==
    ASSUME Types, OrderInv, [CachesNext]_cacheVars
    PROVE  OrderInv'
  <1>0. /\ entries \in Seq(EntryRecord) /\ entries' \in Seq(EntryRecord) /\ now \in Nat
        /\ \A i \in DOMAIN entries : entries[i] \in EntryRecord /\ entries[i].at \in Nat
    <2>1. Types /\ Types' BY TypeStep DEF OrderInv
    <2>2. \A i \in DOMAIN entries : entries[i] \in EntryRecord BY <2>1 DEF Types, EntriesType
    <2>3. \A e \in EntryRecord : e.at \in Nat BY DEF EntryRecord
    <2> QED BY <2>1, <2>2, <2>3 DEF Types, EntriesType
  <1>1. CASE entries' = entries /\ now' \in Nat /\ now <= now'
    BY <1>0, <1>1 DEF OrderInv, HeadIsOldest, StoredBefore
  <1>2. CASE entries' = <<>>
    BY <1>2, CachesAssumption DEF OrderInv, HeadIsOldest, StoredBefore
  <1>3. ASSUME NEW a \in Asker, Store(a) PROVE OrderInv'
    <2>1. PICK gone \in 0..Len(entries) :
            /\ Pushed(entries', entries, gone, Answer(a))
            /\ Len(entries') <= CacheSize
            /\ \A i \in Holding(<<ask[a].project, ask[a].question>>) : i = gone
      BY <1>3, StoreLeaves DEF OrderInv
    <2>2. \A i \in DOMAIN entries' :
             \/ i = Len(entries') /\ entries'[i] = Answer(a)
             \/ /\ i # Len(entries') /\ Was(i, gone) \in DOMAIN entries /\ Was(i, gone) # gone
                /\ entries'[i] = entries[Was(i, gone)]
      BY <1>0, <2>1, PushedFrom
    <2>3. now' = now BY <1>3 DEF Store, AskOnly
    <2>4. StoredBefore' BY <1>0, <2>2, <2>3 DEF StoredBefore, OrderInv, Answer
    <2>5. ASSUME NEW i \in DOMAIN entries', NEW j \in DOMAIN entries', i < j
          PROVE  /\ entries'[i].at <= entries'[j].at
                 /\ <<entries'[i].project, entries'[i].question>> #
                       <<entries'[j].project, entries'[j].question>>
      <3>1. Len(entries') \in Nat /\ i \in 1..Len(entries') /\ j \in 1..Len(entries') BY <1>0
      <3>2. i # Len(entries') BY <2>5, <3>1
      <3>3. /\ Was(i, gone) \in DOMAIN entries /\ Was(i, gone) # gone
            /\ entries'[i] = entries[Was(i, gone)]
        BY <2>2, <3>2
      <3>4. CASE j = Len(entries')
        <4>1. entries'[j] = Answer(a) BY <2>2, <3>4
        <4>2. entries[Was(i, gone)].at <= now BY <3>3 DEF OrderInv, StoredBefore
        <4>3. Was(i, gone) \notin Holding(<<ask[a].project, ask[a].question>>) BY <2>1, <3>3
        <4> QED BY <3>3, <4>1, <4>2, <4>3 DEF Answer, Holding
      <3>5. CASE j # Len(entries')
        <4>1. Was(j, gone) \in DOMAIN entries /\ entries'[j] = entries[Was(j, gone)] BY <2>2, <3>5
        <4>2. Was(i, gone) < Was(j, gone) BY <2>5, <3>1 DEF Was
        <4> QED BY <3>3, <4>1, <4>2 DEF OrderInv, HeadIsOldest
      <3> QED BY <3>4, <3>5
    <2> QED BY <2>1, <2>4, <2>5 DEF OrderInv, HeadIsOldest
  <1>4. ASSUME NEW a \in Asker, AskStep(a) \/ \E k \in Key : Hit(a, k) \/ Miss(a, k)
        PROVE  OrderInv'
    <2>1. Store(a) \/ UNCHANGED <<entries, now>>
      BY <1>4 DEF AskStep, Hit, Miss, Execute, EndAsk, AskOnly
    <2> QED BY <1>0, <1>1, <1>3, <2>1
  <1>5. ASSUME NEW s \in Searcher, SearchStep(s) \/ \E p \in Project : BeginSearch(s, p)
        PROVE  OrderInv'
    BY <1>0, <1>1, <1>5 DEF SearchStep, BeginSearch, EmbeddingCount, EmbedQuery, Check, Lock, Load, EndSearch,
                            SearchOnly
  <1>6. ASSUME RunStep \/ \E p \in Project, by \in {"tool", "watcher"}, full \in BOOLEAN :
                              RequestRun(p, by, full)
        PROVE  OrderInv'
    <2>1. now' = now /\ (entries' = entries \/ entries' = <<>>)
      BY <1>6 DEF RunStep, RequestRun, PassEmbeddings, InvalidateEmbeddingCache, SkipSimilarity,
                  AcquireInRun, LoadInRun, Commit, Rollback, StoreIdentity, Invalidate, RunOnly, Untouched
    <2> QED BY <1>0, <1>1, <1>2, <2>1
  <1>7. CASE Tick BY <1>0, <1>1, <1>7 DEF Tick
  <1>8. CASE UNCHANGED cacheVars BY <1>0, <1>1, <1>8 DEF cacheVars
  <1> QED BY <1>4, <1>5, <1>6, <1>7, <1>8 DEF CachesNext
-----------------------------------------------------------------------------
(* The theorem.                                                            *)

LEMMA InitHolds == CachesInit => CachesInv
  <1> SUFFICES ASSUME CachesInit PROVE CachesInv OBVIOUS
  <1>1. GraphType /\ SlotType BY DEF CachesInit, GraphType, SlotType, NoSlot, AnyProject
  <1>2. RunType BY DEF CachesInit, RunType, RunRecord, NoRun, AnyProject
  <1>3. SearchType BY DEF CachesInit, SearchType, SearchRecord, NoSearch, AnyProject
  <1>4. AskType
    <2>1. NoAsk \in AskRecord /\ NoAsk.pc = "idle" BY NoAskType DEF NoAsk
    <2> QED BY <2>1 DEF CachesInit, AskType
  <1>5. EntriesType
    <2>1. <<>> \in Seq(EntryRecord) OBVIOUS
    <2> QED BY <2>1 DEF CachesInit, EntriesType
  <1>6. SlotInv
    BY DEF CachesInit, SlotInv, LockExcludes, SearchesReadTheirProject, SweptSlotIsOwn, SlotIsCurrent, Loading,
           Reading, NoSearch, NoRun, NoSlot
  <1>7. AnswersInv BY DEF CachesInit, AnswersInv, ReadIsCurrent, CachedAnswersAreCurrent, NoAsk
  <1>8. OrderInv BY CachesAssumption DEF CachesInit, OrderInv, HeadIsOldest, StoredBefore
  <1> QED BY <1>1, <1>2, <1>3, <1>4, <1>5, <1>6, <1>7, <1>8 DEF CachesInv, Types

LEMMA InvStep == CachesInv /\ [CachesNext]_cacheVars => CachesInv'
  <1> SUFFICES ASSUME CachesInv, [CachesNext]_cacheVars PROVE CachesInv' OBVIOUS
  <1>1. Types' BY TypeStep DEF CachesInv, OrderInv
  <1>2. SlotInv' BY LockStep, SlotStep DEF CachesInv, SlotInv
  <1>3. AnswersInv' BY AnswersStep DEF CachesInv, OrderInv
  <1>4. OrderInv' BY OrderStep DEF CachesInv
  <1> QED BY <1>1, <1>2, <1>3, <1>4 DEF CachesInv

LEMMA InvHolds == CachesSpec => []CachesInv
  <1>1. CachesInit => CachesInv BY InitHolds
  <1>2. CachesInv /\ [CachesNext]_cacheVars => CachesInv' BY InvStep
  <1> QED BY <1>1, <1>2, PTL DEF CachesSpec

\* However many searchers and askers there are, whatever projects are indexed:
\* a search reads the vectors of its own project (acquireEmbedCache), and Set of
\* the query cache drops the answer that was stored longest ago.
THEOREM CachesCorrect ==
    CachesSpec => [](SearchesReadTheirProject /\ HeadIsOldest)
  <1>1. CachesInv => SearchesReadTheirProject /\ HeadIsOldest
    BY DEF CachesInv, SlotInv, OrderInv
  <1> QED BY <1>1, InvHolds, PTL

\* The vectors in the slot and the answers in the query cache, in use at one time,
\* are those of the committed graph but for the exceptions SlotIsCurrent and
\* CachedAnswersAreCurrent name.
THEOREM CurrencyCorrect ==
    CachesSpec => []CachesAreCurrent
  <1>1. CachesInv => CachesAreCurrent BY DEF CachesInv, SlotInv, AnswersInv, CachesAreCurrent
  <1> QED BY <1>1, InvHolds, PTL
=============================================================================
