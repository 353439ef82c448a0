---------------------------- MODULE GraphUpdate ----------------------------
(***************************************************************************)
(* Pipeline.Run on a repository that is edited between runs: files are     *)
(* classified by their stored hashes, and a run rebuilds the whole graph,  *)
(* does nothing, or replaces the changed files and re-resolves the files   *)
(* that depend on them.  A run is one transaction and reads one tree;      *)
(* edits during a run are the subject of IndexCoherence.                   *)
(*                                                                         *)
(* Every file has one node of its own, Top, which stands for its module    *)
(* and is the source of its references, and one node per definition.  Two  *)
(* files may share a module's qualified name (a.ts and a.js): the last one *)
(* parsed owns the nodes both define.                                      *)
(***************************************************************************)
EXTENDS Integers, FiniteSets, FiniteSetsExt

CONSTANTS
    File,     \* files, numbered in the order of discovery
    Module,   \* modules, numbered in the order of their qualified names
    Name,     \* names of definitions
    Callable, \* those that name functions; the others name classes
    Layouts,  \* functions from File to Module
    Contents, \* what each file may contain
    Every,    \* CODE_GRAPH_FULL_REINDEX_EVERY
    Cap,      \* CODE_GRAPH_INCREMENTAL_CAP
    MaxEdits, \* bound on the edits of a behaviour
    None      \* no file, no owner, no import

Top == "top"
RefKind == {"call", "toplevel", "value", "type"}

ASSUME GraphAssumption ==
    /\ IsFiniteSet(File) /\ File = 1..Cardinality(File) /\ Module \subseteq Nat
    /\ None \notin File \cup Module
    /\ IsFiniteSet(Name) /\ Top \notin Name /\ Callable \subseteq Name
    /\ Layouts \subseteq [File -> Module]
    /\ \A f \in File : None \notin Contents[f] /\ Contents[f] \subseteq
           [defs : SUBSET Name,
            refs : SUBSET [name : Name, kind : RefKind, from : Module \cup {None}]]
    /\ Every \in Nat /\ Cap \in Nat /\ MaxEdits \in Nat

VARIABLES
    mod,    \* the module of every file
    disk,   \* the tree
    edits,  \* edits so far
    hashes, \* file_hashes: the content each row was computed from
    owner,  \* nodes: the file_path of the node with a qualified name
    edges,  \* edges between nodes
    isf,    \* incrementals_since_full
    seen,   \* the tree that the last run read                      (history)
    parsed  \* the content that each file's nodes come from         (history)

tree == <<mod, disk, edits>>
graph == <<owner, edges>>
vars == <<tree, hashes, graph, isf, seen, parsed>>

QN == Module \X (Name \cup {Top})
TypeOfEdge == {"IMPORTS", "CALLS", "CALLS_PSEUDO", "CALL_REFERENCE", "USAGE", "USES_TYPE"}
Edge == [src : QN, dst : QN, type : TypeOfEdge]

Tree == {d \in [File -> {None} \cup UNION {Contents[f] : f \in File}] :
             \A f \in File : d[f] \in Contents[f] \cup {None}}
Nothing == [f \in File |-> None]
Present(d) == {f \in File : d[f] # None}
TopOf(f) == <<mod[f], Top>>

-----------------------------------------------------------------------------
(* Parsing and resolution.                                                 *)

\* The qualified names that file f defines.
Defines(d, f) == {<<mod[f], n>> : n \in d[f].defs \cup {Top}}

\* The nodes once the files S have been parsed over own: the last one wins.
Parsed(own, d, S) ==
    [q \in QN |-> LET by == {f \in S : q \in Defines(d, f)}
                  IN  IF by = {} THEN own[q] ELSE Max(by)]

\* FunctionRegistry: the modules with a definition of name n.
Candidates(own, n) == {m \in Module : own[<<m, n>>] # None}

\* The strategies, in the order in which they are tried: an exact import, the
\* file's own module, a name that is unique in the project, or a guess among
\* several (all modules are equally near, so the first by qualified name).  A
\* call of a name that is imported from elsewhere is external.
ImportMap(own, r) == r.from \in Candidates(own, r.name)
SameModule(own, f, r) == mod[f] \in Candidates(own, r.name)
External(r) == r.from # None /\ r.kind \in {"call", "toplevel"}

Resolves(own, f, r) ==
    /\ Candidates(own, r.name) # {}
    /\ ImportMap(own, r) \/ SameModule(own, f, r) \/ ~External(r)

Home(own, f, r) ==
    IF ImportMap(own, r) THEN r.from
    ELSE IF SameModule(own, f, r) THEN mod[f] ELSE Min(Candidates(own, r.name))

Proven(own, f, r) ==
    \/ ImportMap(own, r) \/ SameModule(own, f, r)
    \/ Cardinality(Candidates(own, r.name)) = 1

EdgeType(r, proven) ==
    CASE r.kind = "call" -> "CALLS"
      [] r.kind = "toplevel" -> "CALLS_PSEUDO"
      [] r.kind = "type" -> "USES_TYPE"
      [] OTHER -> IF proven /\ r.name \in Callable THEN "CALL_REFERENCE" ELSE "USAGE"

Reference(own, f, r) ==
    [src |-> TopOf(f), dst |-> <<Home(own, f, r), r.name>>, type |-> EdgeType(r, Proven(own, f, r))]

Imports(own, d, f) ==
    {[src |-> TopOf(f), dst |-> <<m, Top>>, type |-> "IMPORTS"] :
        m \in {r.from : r \in d[f].refs} \cap Candidates(own, Top)}

\* An edge is kept if both of its nodes are found.
Linked(own, es) == {e \in es : own[e.src] # None /\ own[e.dst] # None}

\* The edges that the passes give file f.
Resolved(own, d, f) ==
    Linked(own, Imports(own, d, f)
        \cup {Reference(own, f, r) : r \in {s \in d[f].refs : Resolves(own, f, s)}})

RebuiltNodes(d) == Parsed([q \in QN |-> None], d, Present(d))
RebuiltEdges(d) == UNION {Resolved(RebuiltNodes(d), d, f) : f \in Present(d)}

-----------------------------------------------------------------------------
(* classifyFiles, and the files that depend on a changed one.              *)

NeverHashed == {f \in Present(disk) : hashes[f] # None}
Unchanged == {f \in Present(disk) : disk[f] = hashes[f]}
Changed == Present(disk) \ Unchanged
Deleted == Present(hashes) \ Present(disk)

\* Edges that findCallerOfTargetDependents follows.
CallsOnly == {"CALLS"}
Traced == {"CALLS", "USAGE"}

\* resolvableEdgeTypes.
Cleared == {"CALLS", "USAGE", "USES_TYPE"}

Importers ==
    {u \in Unchanged : \E e \in edges :
        /\ e.src = TopOf(u) /\ e.type = "IMPORTS"
        /\ e.dst \in {TopOf(t) : t \in Changed \cup Deleted}}

Callers ==
    {u \in Unchanged : \E e \in edges :
        owner[e.src] = u /\ owner[e.dst] \in Changed \cup Deleted /\ e.type \in Traced}

ToResolve == Changed \cup Importers \cup Callers

-----------------------------------------------------------------------------
(* Runs.                                                                   *)

\* runFullPasses: the hash rows of files that are gone stay.
Rebuild ==
    /\ owner' = RebuiltNodes(disk)
    /\ edges' = RebuiltEdges(disk)
    /\ hashes' = [f \in File |-> IF disk[f] # None THEN disk[f] ELSE hashes[f]]
    /\ parsed' = disk

\* IncrementIncrementalsSinceFull.
CountLost == isf' = isf
Count == isf' = isf + 1

Due == Every > 0 /\ isf >= Every

RunFull ==
    /\ Unchanged = {}
    /\ Rebuild
    /\ isf' = 0

RunSentinel ==
    /\ Unchanged # {} /\ Due
    /\ Rebuild
    /\ isf' = 0

RunNoop ==
    /\ Unchanged # {} /\ ~Due /\ Changed = {} /\ Deleted = {}
    /\ UNCHANGED <<hashes, graph, isf, parsed>>

\* The cap falls back to a rebuild, which the caller counts as incremental.
RunCapped ==
    /\ Unchanged # {} /\ ~Due /\ Changed \cup Deleted # {}
    /\ Cap > 0 /\ Cardinality(ToResolve) > Cap
    /\ Rebuild
    /\ Count

GoneIfChanged == {q \in QN : owner[q] \in Changed}
Gone == {q \in QN : owner[q] \in Changed \cup Deleted}
Kept == [q \in QN |-> IF q \in Gone THEN None ELSE owner[q]]

\* Deleting a node deletes its edges.
CascadeBySource == {e \in edges : e.src \notin Gone}
Surviving == {e \in edges : e.src \notin Gone /\ e.dst \notin Gone}

\* deleteResolvableEdges goes by the file_path of the source node.
DroppedIfChanged(own) == {e \in Surviving : own[e.src] \in Changed /\ e.type \in Cleared}
Dropped(own) == {e \in Surviving : own[e.src] \in ToResolve /\ e.type \in Cleared}

RunIncremental ==
    /\ Unchanged # {} /\ ~Due /\ Changed \cup Deleted # {}
    /\ Cap > 0 => Cardinality(ToResolve) <= Cap
    /\ owner' = Parsed(Kept, disk, Changed)
    /\ edges' = (Surviving \ Dropped(owner'))
                    \cup UNION {Resolved(owner', disk, f) : f \in ToResolve}
    /\ hashes' = disk
    /\ parsed' = [f \in File |-> IF f \in Changed \cup Deleted THEN disk[f] ELSE parsed[f]]
    /\ Count

Run ==
    /\ RunFull \/ RunSentinel \/ RunNoop \/ RunCapped \/ RunIncremental
    /\ seen' = disk
    /\ UNCHANGED tree

\* force=true clears the hashes before the run, which may then fail.
ForceReindex ==
    /\ hashes' = Nothing
    /\ UNCHANGED <<tree, graph, isf, seen, parsed>>

Edit(f) ==
    /\ edits < MaxEdits
    /\ edits' = edits + 1
    /\ \E c \in (Contents[f] \cup {None}) \ {disk[f]} : disk' = [disk EXCEPT ![f] = c]
    /\ UNCHANGED <<mod, hashes, graph, isf, seen, parsed>>

Init ==
    /\ mod \in Layouts
    /\ disk \in Tree
    /\ edits = 0
    /\ hashes = Nothing
    /\ owner = [q \in QN |-> None]
    /\ edges = {}
    /\ isf = 0
    /\ seen = Nothing
    /\ parsed = Nothing

Next == Run \/ ForceReindex \/ \E f \in File : Edit(f)

Spec == Init /\ [][Next]_vars

-----------------------------------------------------------------------------
(* Properties.                                                             *)

\* Variables keep their types; edges join nodes that exist, and the count of
\* incremental runs never passes the limit.
TypeOK ==
    /\ mod \in Layouts
    /\ {disk, hashes, seen, parsed} \subseteq Tree
    /\ owner \in [QN -> File \cup {None}]
    /\ edges \subseteq Edge
    /\ \A e \in edges : owner[e.src] # None /\ owner[e.dst] # None
    /\ isf \in Nat /\ (Every > 0 => isf <= Every)
    /\ edits \in 0..MaxEdits

\* No two files share a module's qualified name.
Untwinned == \A f, g \in File : mod[f] = mod[g] => f = g

\* Every file that the last run saw was parsed with what it then held.
AllParsed == parsed = seen

\* After any run the nodes are those of a rebuild: removals, renames and edits
\* leave no node behind and lose none (removeDeletedFiles, DeleteNodesByFile,
\* passDefinitions).
NodesMatchRebuild == Untwinned /\ AllParsed => owner = RebuiltNodes(seen)

\* A graph that differs from a rebuild is younger than the last rebuild: the
\* count that the sentinel waits for is not zero (runPasses).
DriftIsCounted ==
    Untwinned /\ AllParsed /\ edges # RebuiltEdges(seen) => isf > 0

\* The nodes of a file come from what the last run saw in it, or the file has
\* none: no run passes over a file whose older content is in the graph
\* (classifyFiles).  It may have none: a rebuild keeps the hash of a deleted
\* file, and one that comes back as it was is taken for unchanged.
NoFileIsOld == \A f \in File : parsed[f] \in {seen[f], None}

Sound == Untwinned /\ parsed' = seen'

\* An incremental run loses no CALLS or USAGE edge that a rebuild would find
\* again, whatever was deleted from under it (findCallerOfTargetDependents
\* reads the edges before the cascade takes them).
CallsSurvive ==
    [][RunIncremental /\ Sound =>
        {e \in edges \cap RebuiltEdges(disk) : e.type \in {"CALLS", "USAGE"}} \subseteq edges']_vars

\* A file that a run re-resolves has exactly the calls, usages and type
\* references that a rebuild gives it (deleteResolvableEdges and the passes
\* after it).
ResolvedMatchesRebuild ==
    [][RunIncremental /\ Sound =>
        \A u \in ToResolve :
            {e \in edges' : e.src = TopOf(u) /\ e.type \in {"CALLS", "USAGE", "USES_TYPE"}}
                = {e \in RebuiltEdges(disk) :
                     e.src = TopOf(u) /\ e.type \in {"CALLS", "USAGE", "USES_TYPE"}}]_vars

\* The same of every edge that passCalls and passUsages create, which the
\* comment of resolvableEdgeTypes says that it lists.
ResolvedIsCleared ==
    [][RunIncremental /\ Sound =>
        \A u \in ToResolve :
            {e \in edges' : e.src = TopOf(u) /\ e.type # "IMPORTS"}
                = {e \in RebuiltEdges(disk) : e.src = TopOf(u) /\ e.type # "IMPORTS"}]_vars

=============================================================================
