----------------------------- MODULE Traversal -----------------------------
(* Walks over a project's graph: the store's searches (traverse.go,         *)
(* impact.go) and the tools that draw conclusions from them: security.go,   *)
(* dataflow.go, trace.go, detect_changes.go, review_context.go, cycles.go.  *)
(*                                                                          *)
(* A graph is [node, edge], sequences of records indexed by their ids; ids  *)
(* follow the order of the names.  A confidence is in tenths.               *)
EXTENDS Integers, SequencesExt

CONSTANTS
    None,         \* an absent confidence, path or sanitizer
    BFSCap,       \* rows of a search: 200, or 500 for tainted paths
    CycleCap,     \* cycles listed
    SurfaceCap    \* default entries per security role

TraversalCaps == {BFSCap, CycleCap, SurfaceCap} \subseteq Nat \ {0}

Source(g, e, dir) == IF dir = "inbound" THEN g.edge[e].tgt ELSE g.edge[e].src
Target(g, e, dir) == IF dir = "inbound" THEN g.edge[e].src ELSE g.edge[e].tgt

Clamp(n, low, high) == IF n < low THEN low ELSE IF n > high THEN high ELSE n
Default(n, d) == IF n <= 0 THEN d ELSE n
InOrder(S, n) ==
    LET T == S \cap 1..n
    IN  [k \in 1..Cardinality(T) |-> CHOOSE i \in T : Cardinality({j \in T : j <= i}) = k]
First(s, n) == SubSeq(s, 1, IF n < Len(s) THEN n ELSE Len(s))

\* The rows at some places, in their order.
AtPlaces(rows, places) ==
    LET kept == InOrder(places, Len(rows)) IN [i \in DOMAIN kept |-> rows[kept[i]]]

\* The edges a search follows: of its types, and, with a minimum, of that
\* confidence or of none.
Selected(g, types, min) ==
    {e \in DOMAIN g.edge :
       /\ types = <<>> \/ Contains(types, g.edge[e].type)
       /\ min = 0 \/ g.edge[e].conf = None \/ g.edge[e].conf >= min}

\* The recursive query: the nodes at each distance from the start.
Levels(g, start, dir, types, depth, min) ==
    LET E == Selected(g, types, min)
        at[h \in 0..depth] ==
            IF h = 0 THEN {start}
            ELSE {Target(g, e, dir) : e \in {e \in E : Source(g, e, dir) \in at[h - 1]}}
    IN  at

\* One row for each node and distance, nearest first.
bfsVisited(g, start, dir, types, maxDepth, maxResults, min) ==
    LET depth == Default(maxDepth, 3)
        cap == Default(maxResults, 200)
        level(ns, h) == [i \in DOMAIN ns |-> [node |-> ns[i], hop |-> h]]
        rows(at) == FlattenSeq([h \in 1..depth |-> level(InOrder(at[h], Len(g.node)), h)])
        capped(all) == [visited |-> First(all, cap), truncated |-> Len(all) > cap]
    IN  capped(rows(Levels(g, start, dir, types, depth, min)))

\* SELECT DISTINCT over names: edges that look alike are one.
bfsCollectEdges(g, start, dir, types, maxDepth, min) ==
    LET depth == Default(maxDepth, 3)
        at == Levels(g, start, dir, types, depth, min)
        near == UNION {at[h] : h \in 0..(depth - 1)}
    IN  {[from |-> g.node[g.edge[e].src].name, to |-> g.node[g.edge[e].tgt].name,
          type |-> g.edge[e].type, conf |-> g.edge[e].conf] :
           e \in {e \in Selected(g, types, min) : Source(g, e, dir) \in near}}

BFS(g, start, dir, types, depth, cap, min) ==
    LET told(found) == [visited |-> found.visited, truncated |-> found.truncated,
                        edges |-> bfsCollectEdges(g, start, dir, types, depth, min)]
    IN  told(bfsVisited(g, start, dir, types, depth, cap, min))

\* The neighbours by type, in the order of the list of types.
neighborIDs(g, n, dir, types) ==
    LET of(t) == InOrder({e \in DOMAIN g.edge :
                             g.edge[e].type = t /\ Source(g, e, dir) = n}, Len(g.edge))
        ends(es) == [i \in DOMAIN es |-> Target(g, es[i], dir)]
    IN  ends(FlattenSeq([i \in DOMAIN types |-> of(types[i])]))

OrCalls(types) == IF types = <<>> THEN <<"CALLS">> ELSE types

\* What a search that is at cur goes on to, and the queue without cur.
Entered(g, cur, dir, types, depth) ==
    IF cur.depth >= depth THEN <<>> ELSE neighborIDs(g, cur.id, dir, OrCalls(types))
Popped(acc) == [acc EXCEPT !.queue = Tail(@)]

\* A queue of [id, depth].  An excluded node is never entered, but the target
\* is recognised before the exclusion is asked for.
ReachableExcluding(g, start, target, dir, types, maxDepth, exclude) ==
    LET depth == Default(maxDepth, 3)
        visit(acc, n) ==
            IF acc.found \/ n = target THEN [acc EXCEPT !.found = TRUE]
            ELSE IF n \in acc.visited \cup exclude THEN acc
            ELSE [acc EXCEPT !.visited = @ \cup {n},
                             !.queue = Append(@, [id |-> n, depth |-> acc.queue[1].depth + 1])]
        pop(acc, i) ==
            IF acc.found \/ acc.queue = <<>> THEN acc
            ELSE Popped(FoldLeft(visit, acc, Entered(g, Head(acc.queue), dir, types, depth)))
        init == [found |-> start = target, visited |-> {start},
                 queue |-> <<[id |-> start, depth |-> 0]>>]
    IN  FoldLeft(pop, init, g.node).found

\* The parents from the target back to the start, in the order of the path.
PathBack(parent, start, target, n) ==
    LET back[k \in 0..n] == IF k = 0 THEN target ELSE parent[back[k - 1]]
        length == CHOOSE k \in 0..n : back[k] = start /\ \A j \in 0..(k - 1) : back[j] # start
    IN  IF target \notin DOMAIN parent THEN None
        ELSE [i \in 1..(length + 1) |-> back[length + 1 - i]]

ShortestPath(g, start, target, dir, types, maxDepth) ==
    LET depth == Default(maxDepth, 3)
        visit(acc, n) ==
            IF target \in DOMAIN acc.parent \/ n \in DOMAIN acc.parent THEN acc
            ELSE [acc EXCEPT !.parent = [m \in DOMAIN @ \cup {n} |->
                                           IF m = n THEN acc.queue[1].id ELSE @[m]],
                             !.queue = Append(@, [id |-> n, depth |-> acc.queue[1].depth + 1])]
        pop(acc, i) ==
            IF acc.queue = <<>> THEN acc
            ELSE Popped(FoldLeft(visit, acc, Entered(g, Head(acc.queue), dir, types, depth)))
        all == FoldLeft(pop, [parent |-> [m \in {start} |-> start],
                              queue |-> <<[id |-> start, depth |-> 0]>>], g.node)
    IN  PathBack(all.parent, start, target, Len(g.node))

-----------------------------------------------------------------------------
(* security.go.                                                             *)

ByRole(g, role) == InOrder({n \in DOMAIN g.node : g.node[n].role = role}, Len(g.node))

filterTestNodes(g, ns, exclude) ==
    AtPlaces(ns, {i \in DOMAIN ns : ~exclude \/ ~g.node[ns[i]].test})

\* main is not itself an entry: its callees are, less those that set things
\* up; without a new one it stays.
refineSources(g, sources) ==
    LET enter(acc, n) ==
            IF n \in acc.seen THEN acc
            ELSE [seen |-> acc.seen \cup {n}, refined |-> Append(acc.refined, n)]
        callee(acc, n) == IF g.node[n].infra THEN acc ELSE enter(acc, n)
        refine(acc, n) ==
            LET callees == neighborIDs(g, n, "outbound", <<"CALLS">>)
                more == FoldLeft(callee, acc, callees)
            IN  IF g.node[n].name # "main" \/ more.refined = acc.refined
                  THEN enter(acc, n) ELSE more
    IN  FoldLeft(refine, [seen |-> {}, refined |-> <<>>], sources).refined

TaintTypes == <<"CALLS", "HTTP_CALLS", "ASYNC_CALLS">>

\* The verdict that the comment of ReachableExcluding calls the prior
\* heuristic: a sanitizer anywhere in reach.
pathSanitizedAnywhere(g, source, sink, depth, sanitizers) ==
    LET at == Levels(g, source, "outbound", TaintTypes, depth, 0)
        on == (UNION {at[h] : h \in DOMAIN at}) \cap sanitizers
    IN  [sanitized |-> on # {}, by |-> IF on = {} THEN None ELSE CHOOSE n \in on : TRUE]

\* The sanitizer is named by the first of them on a shortest path.
pathSanitized(g, source, sink, depth, sanitizers) ==
    LET on(path) == IF path = None THEN <<>>
                    ELSE AtPlaces(path, {i \in DOMAIN path : path[i] \in sanitizers \ {source, sink}})
        named(ns) == IF ns = <<>> THEN None ELSE Head(ns)
    IN  IF ReachableExcluding(g, source, sink, "outbound", TaintTypes, depth, sanitizers)
          THEN [sanitized |-> FALSE, by |-> None]
          ELSE [sanitized |-> TRUE,
                by |-> named(on(ShortestPath(g, source, sink, "outbound", TaintTypes, depth)))]

Sanitizers(g) == ToSet(ByRole(g, "sanitizer")) \cup ToSet(ByRole(g, "auth_boundary"))

handleTaintedPaths(g, maxPaths, askedDepth, excludeTests) ==
    LET depth == Clamp(askedDepth, 1, 6)
        sources == filterTestNodes(g, ByRole(g, "input_entry_point"), excludeTests)
        sinks == ToSet(filterTestNodes(g, ByRole(g, "sensitive_sink"), excludeTests))
        pair(src, row) ==
            LET told(verdict) == [source |-> src, sink |-> row.node, hops |-> row.hop,
                                  sanitized |-> verdict.sanitized, by |-> verdict.by]
            IN  told(pathSanitized(g, src, row.node, depth, Sanitizers(g)))
        from(paths, src) ==
            LET add(acc, row) ==
                    IF \/ Len(acc) >= maxPaths \/ row.node \notin sinks
                       \/ \E i \in DOMAIN acc : acc[i].source = src /\ acc[i].sink = row.node
                      THEN acc ELSE Append(acc, pair(src, row))
            IN  FoldLeft(add, paths,
                         BFS(g, src, "outbound", TaintTypes, depth, BFSCap, 0).visited)
        counted(paths) == [paths |-> paths,
                           sanitized |-> Cardinality({i \in DOMAIN paths : paths[i].sanitized})]
    IN  counted(IF sinks = {} THEN <<>> ELSE FoldLeft(from, <<>>, refineSources(g, sources)))

\* Entries stop at the limit; the count does not.  A role without entries is
\* left out.
handleSurfacesQuery(g, roles, limit) ==
    LET code(role) == SelectSeq(ByRole(g, role), LAMBDA n : g.node[n].code)
        shown(role) == First(code(role), limit)
        listed == SelectSeq(roles, LAMBDA role : shown(role) # <<>>)
    IN  [surfaces |-> [role \in ToSet(listed) |-> shown(role)],
         total |-> FoldLeft(LAMBDA n, role : n + Len(code(role)), 0, listed)]

handleDataFlow(g, source, askedDepth) ==
    LET found == BFS(g, source, "outbound", <<"CALLS", "WRITES", "READS", "USAGE">>,
                     Clamp(askedDepth, 1, 5), BFSCap, 0)
        of(role) == SelectSeq(found.visited, LAMBDA r : g.node[r.node].role = role)
    IN  [flow |-> found.visited, sinks |-> of("sensitive_sink"),
         auth |-> of("auth_boundary"), edges |-> found.edges]

-----------------------------------------------------------------------------
(* trace.go: callers and callees, by hop.                                   *)

runTraceBFS(g, root, dir, types, depth, min) ==
    LET one(d) == BFS(g, root, d, types, depth, BFSCap, min)
        joined(out, in) ==
            [visited |-> out.visited \o in.visited, edges |-> <<out.edges, in.edges>>]
        alone(found) == [visited |-> found.visited, edges |-> <<found.edges>>]
    IN  IF dir = "both" THEN joined(one("outbound"), one("inbound")) ELSE alone(one(dir))

\* Each node at the last row that has it.
DeduplicateHopsLast(rows) ==
    LET last(i) == \A j \in DOMAIN rows : rows[j].node = rows[i].node => j <= i
    IN  AtPlaces(rows, {i \in DOMAIN rows : last(i)})

DeduplicateHops(rows) ==
    LET best(i) == \A j \in DOMAIN rows : rows[j].node = rows[i].node =>
                     rows[i].hop < rows[j].hop \/ (rows[i].hop = rows[j].hop /\ i <= j)
    IN  AtPlaces(rows, {i \in DOMAIN rows : best(i)})

\* The hops are listed from 1 to how many there are.
buildHops(rows) ==
    LET hops == {r.hop : r \in ToSet(rows)}
    IN  [h \in 1..Cardinality(hops) |-> AtPlaces(rows, {i \in DOMAIN rows : rows[i].hop = h})]

HopToRisk(hop) ==
    IF hop \in 1..3 THEN <<"CRITICAL", "HIGH", "MEDIUM">>[hop] ELSE "LOW"

CrossService(edges) == \E e \in edges : e.type \in {"HTTP_CALLS", "ASYNC_CALLS"}

BuildImpactSummary(rows, edges) ==
    [risk |-> [k \in {"CRITICAL", "HIGH", "MEDIUM", "LOW"} |->
                 Cardinality({i \in DOMAIN rows : HopToRisk(rows[i].hop) = k})],
     total |-> Len(rows), cross |-> CrossService(edges)]

\* In percent; no ratio is claimed for other edges, or with a minimum.
traceConfidenceBand(resolved, unresolved) ==
    CASE resolved + unresolved = 0 -> "high"
      [] resolved = 0 /\ unresolved > 0 -> "speculative"
      [] resolved > 0 /\ 100 * resolved >= 95 * (resolved + unresolved) -> "high"
      [] resolved > 0 /\ 100 * resolved < 95 * (resolved + unresolved)
           /\ 10 * resolved >= resolved + unresolved -> "medium"
      [] OTHER -> "low"

buildTraceResponse(g, root, rows, edges, types, min) ==
    LET unresolved == FoldLeft(LAMBDA n, r : n + g.node[r.node].unresolved,
                               g.node[root].unresolved, rows)
        resolved == FoldLeft(LAMBDA n, E : n + Cardinality(E), 0, edges)
    IN  [total |-> Len(rows), unresolved |-> unresolved,
         band |-> IF types = <<"CALLS">> /\ min = 0
                    THEN traceConfidenceBand(resolved, unresolved) ELSE "unknown"]

handleTraceCallPath(g, root, dir, types, askedDepth, min, riskLabels) ==
    LET response(rows, edges) ==
            [told |-> buildTraceResponse(g, root, rows, edges, types, min),
             hops |-> buildHops(rows), impact |-> BuildImpactSummary(rows, UNION ToSet(edges))]
        told(found) == response(IF riskLabels THEN DeduplicateHops(found.visited) ELSE found.visited,
                                found.edges)
    IN  told(runTraceBFS(g, root, dir, types, Clamp(askedDepth, 1, 5), min))

-----------------------------------------------------------------------------
(* detect_changes.go and review_context.go.  A changed file is              *)
(* [path, status, hunks], a hunk a set of lines.                            *)

\* By the hunks where there are any, else every symbol of the file.
resolveFileSymbols(g, f) ==
    LET inFile == {n \in DOMAIN g.node : g.node[n].file = f.path}
        overlap(h) == InOrder({n \in inFile : g.node[n].lines \cap h # {}}, Len(g.node))
    IN  IF f.hunks = <<>> THEN InOrder(inFile, Len(g.node))
        ELSE FlattenSeq([i \in DOMAIN f.hunks |-> overlap(f.hunks[i])])

mapChangesToSymbols(g, files) ==
    LET add(acc, n) == IF Contains(acc, n) THEN acc ELSE Append(acc, n)
        symbols(f) == IF f.status = "D" THEN <<>> ELSE resolveFileSymbols(g, f)
    IN  FoldLeft(add, <<>>, FlattenSeq([i \in DOMAIN files |-> symbols(files[i])]))

\* The first changed symbol at the least distance is the one named.
traceImpact(g, changed, depth) ==
    LET found(sym) == BFS(g, sym, "inbound", TaintTypes, depth, BFSCap, 0)
        hits(rows, sym) == [j \in DOMAIN rows |-> [node |-> rows[j].node, hop |-> rows[j].hop, by |-> sym]]
        better(best, p) ==
            IF Contains(changed, p.node) \/ (p.node \in DOMAIN best /\ best[p.node].hop <= p.hop)
              THEN best
              ELSE [n \in DOMAIN best \cup {p.node} |->
                      IF n = p.node THEN [hop |-> p.hop, by |-> p.by] ELSE best[n]]
    IN  [impact |-> FoldLeft(better, <<>>, FlattenSeq([i \in DOMAIN changed |->
                                 hits(found(changed[i]).visited, changed[i])])),
         edges |-> UNION {found(changed[i]).edges : i \in DOMAIN changed}]

buildDetectSummary(files, changed, impacted) ==
    [files |-> Len(files), symbols |-> Len(changed), total |-> Cardinality(DOMAIN impacted.impact),
     risk |-> [k \in {"CRITICAL", "HIGH", "MEDIUM", "LOW"} |->
                 Cardinality({n \in DOMAIN impacted.impact : HopToRisk(impacted.impact[n].hop) = k})],
     cross |-> CrossService(impacted.edges)]

handleDetectChanges(g, files, askedDepth) ==
    LET reported(changed, impacted) ==
            [changed |-> changed, impact |-> impacted.impact,
             summary |-> buildDetectSummary(files, changed, impacted)]
        detected(changed) == reported(changed, traceImpact(g, changed, Clamp(askedDepth, 1, 5)))
    IN  detected(mapChangesToSymbols(g, files))

\* At most three tests are named, and at most five callees.
findTestCoverage(g, changed) ==
    [i \in DOMAIN changed |->
       LET tests == neighborIDs(g, changed[i], "inbound", <<"TESTS">>)
       IN  [count |-> Len(tests), names |-> First(tests, 3)]]
traceOutboundDeps(g, changed) ==
    [i \in DOMAIN changed |->
       LET callees == neighborIDs(g, changed[i], "outbound", <<"CALLS">>)
       IN  First(callees, 5)]

\* The budget decides how many impacted symbols are listed, the rest are
\* counted, and whether dependencies are shown.
buildReviewMarkdown(g, changed, impacted, maxTokens) ==
    LET at(h) == InOrder({n \in DOMAIN impacted.impact : impacted.impact[n].hop = h}, Len(g.node))
        order == FlattenSeq([h \in 1..5 |-> at(h)])
        listed == First(order, Clamp(maxTokens \div 50, 5, 40))
    IN  [listed |-> listed, more |-> Len(order) - Len(listed),
         untested |-> {changed[i] : i \in {i \in DOMAIN changed : findTestCoverage(g, changed)[i].count = 0}},
         deps |-> IF maxTokens >= 400 THEN traceOutboundDeps(g, changed) ELSE <<>>]

handleGetReviewContext(g, files, askedDepth, maxTokens) ==
    LET reviewed(changed) ==
            buildReviewMarkdown(g, changed, traceImpact(g, changed, Clamp(askedDepth, 1, 5)),
                                Clamp(maxTokens, 200, 2000))
    IN  reviewed(mapChangesToSymbols(g, files))

-----------------------------------------------------------------------------
(* change_coupling.go and cycles.go.  The container of a node is its crate, *)
(* its package or its file, by level.                                       *)

Couplings(g, min, askedLimit, crossOnly) ==
    LET limit == IF askedLimit < 1 THEN 30 ELSE Clamp(askedLimit, 1, 1000)
        crate(n) == g.node[n].within["crate"]
        score(e) == IF g.edge[e].conf = None THEN 0 ELSE g.edge[e].conf
        same(e) == crate(g.edge[e].src) = crate(g.edge[e].tgt)
        before(e, f) == \/ ~same(e) /\ same(f)
                        \/ same(e) = same(f) /\ (score(e) > score(f) \/ (score(e) = score(f) /\ e < f))
        coupled(e) == /\ g.edge[e].type = "FILE_CHANGES_WITH" /\ score(e) >= min
                      /\ ~crossOnly \/ ~same(e)
        kept == SortSeq(InOrder({e \in DOMAIN g.edge : coupled(e)}, Len(g.edge)), before)
        shown == First(kept, limit)
    IN  [couplings |-> shown, accidental |-> Cardinality({e \in ToSet(shown) : ~same(e)})]

buildDependencyGraph(g, level) ==
    {<<g.node[g.edge[e].src].within[level], g.node[g.edge[e].tgt].within[level]>> :
       e \in {e \in DOMAIN g.edge :
                /\ g.edge[e].type \in {"CALLS", "IMPORTS", "HTTP_CALLS", "ASYNC_CALLS"}
                /\ g.node[g.edge[e].src].within[level] # g.node[g.edge[e].tgt].within[level]
                /\ {g.node[g.edge[e].src].within[level], g.node[g.edge[e].tgt].within[level]} \cap {None} = {}}}

\* A key that forgets the order, the way of a set of names.
canonicalCycleKeySorted(cycle) == SortSeq(cycle, <)

\* The cycle from its least container on.
canonicalCycleKey(cycle) ==
    LET least == CHOOSE i \in DOMAIN cycle : \A j \in DOMAIN cycle : cycle[i] <= cycle[j]
    IN  SubSeq(cycle, least, Len(cycle)) \o SubSeq(cycle, 1, least - 1)

\* The simple paths from each container; one of 2 to maxDepth that an edge
\* closes is a cycle.
findCycles(dep, maxDepth) ==
    LET paths[k \in 1..maxDepth] ==
            IF k = 1 THEN {<<d[1]>> : d \in dep}
            ELSE {Append(pd[1], pd[2][2]) : pd \in {pd \in paths[k - 1] \X dep :
                    pd[2][1] = Last(pd[1]) /\ ~Contains(pd[1], pd[2][2])}}
    IN  {canonicalCycleKey(p) : p \in {p \in UNION {paths[k] : k \in 2..maxDepth} :
                                        <<Last(p), p[1]>> \in dep}}

\* The shortest are listed first.
handleDetectCycles(g, level, askedDepth) ==
    LET found == findCycles(buildDependencyGraph(g, level), Clamp(askedDepth, 2, 6))
        before(c, d) ==
            \/ Len(c) < Len(d)
            \/ /\ Len(c) = Len(d)
               /\ \E i \in DOMAIN c : c[i] < d[i] /\ \A j \in 1..(i - 1) : c[j] = d[j]
    IN  [cycles |-> {c \in found : Cardinality({d \in found : before(d, c)}) < CycleCap},
         truncated |-> Cardinality(found) > CycleCap]

-----------------------------------------------------------------------------
(* What the answers are measured by.                                        *)

\* Within depth of the source over calls that leave no node of cut but it.
Avoiding(g, source, depth, cut) ==
    LET at[h \in 0..depth] ==
            IF h = 0 THEN {source}
            ELSE at[h - 1] \cup {g.edge[e].tgt : e \in {e \in Selected(g, TaintTypes, 0) :
                                    g.edge[e].src \in at[h - 1] \ (cut \ {source})}}
    IN  at[depth]

Distances(g, n, dir, depth, m) ==
    {h \in 1..depth : m \in Levels(g, n, dir, TaintTypes, depth, 0)[h]}

Nearest(h, distances) == h \in distances /\ \A other \in distances : h <= other

Uncut(g, ns, dir, depth) ==
    \A n \in ns : ~bfsVisited(g, n, dir, TaintTypes, depth, BFSCap, 0).truncated

\* A pair is called sanitized when no path in reach of the question avoids the
\* sanitizers, never because one lies beside the path; its sanitizer is named;
\* and each pair is told once, with its distance, all of them when no cap is met.
TaintVerdicts(g, maxPaths, depth, excludeTests) ==
    LET d == Clamp(depth, 1, 6)
        refined == ToSet(refineSources(g, filterTestNodes(g, ByRole(g, "input_entry_point"), excludeTests)))
        sinks == ToSet(filterTestNodes(g, ByRole(g, "sensitive_sink"), excludeTests))
        told(p) ==
            /\ Nearest(p.hops, Distances(g, p.source, "outbound", d, p.sink))
            /\ p.sanitized <=> p.sink \notin Avoiding(g, p.source, d, Sanitizers(g))
            /\ p.sanitized => p.by \in Sanitizers(g)
        pairs(paths) == {<<p.source, p.sink>> : p \in ToSet(paths)}
        sound(paths) ==
            /\ \A p \in ToSet(paths) : told(p)
            /\ Cardinality(pairs(paths)) = Len(paths)
            /\ Len(paths) < maxPaths /\ Uncut(g, refined, "outbound", d) =>
                 \A source \in refined, sink \in sinks :
                   Distances(g, source, "outbound", d, sink) # {} => <<source, sink>> \in pairs(paths)
    IN  sound(handleTaintedPaths(g, maxPaths, depth, excludeTests).paths)

\* What a change touches: every caller in reach, at its distance from the
\* nearest changed symbol, none of the changed ones, each once; the budget of
\* a review hides none of them without counting it.
ImpactNearest(g, files, depth, maxTokens) ==
    LET d == Clamp(depth, 1, 5)
        near(changed, n) == UNION {Distances(g, c, "inbound", d, n) : c \in changed}
        exact(impact, changed) ==
            /\ DOMAIN impact = {n \in DOMAIN g.node \ changed : near(changed, n) # {}}
            /\ \A n \in DOMAIN impact :
                 /\ impact[n].hop \in Distances(g, impact[n].by, "inbound", d, n)
                 /\ Nearest(impact[n].hop, near(changed, n))
        told(a, r) ==
            Uncut(g, ToSet(a.changed), "inbound", d) =>
              /\ exact(a.impact, ToSet(a.changed))
              /\ a.summary.total = Len(r.listed) + r.more
              /\ r.untested = {n \in ToSet(a.changed) : \A e \in DOMAIN g.edge :
                                 ~(g.edge[e].type = "TESTS" /\ g.edge[e].tgt = n)}
    IN  told(handleDetectChanges(g, files, depth), handleGetReviewContext(g, files, depth, maxTokens))

\* The sets of dependencies that make one simple cycle of at most depth.
SimpleCycles(dep, depth) ==
    {C \in SUBSET dep :
       /\ Cardinality(C) \in 2..depth
       /\ LET on == {d[1] : d \in C}
               round[k \in 0..Cardinality(C)] ==
                   IF k = 0 THEN {CHOOSE n \in on : TRUE}
                   ELSE round[k - 1] \cup {d[2] : d \in {d \in C : d[1] \in round[k - 1]}}
           IN  /\ Cardinality(on) = Cardinality(C) /\ {d[2] : d \in C} = on
               /\ round[Cardinality(C)] = on}

Steps(c) == {<<c[i], c[(i % Len(c)) + 1]>> : i \in DOMAIN c}

\* Every simple cycle of dependencies is reported once: two that run through
\* the same containers in different orders are two.
CyclesOnce(g, level, depth) ==
    LET told(a, due) ==
            ~a.truncated =>
              {Steps(c) : c \in a.cycles} = due /\ Cardinality(a.cycles) = Cardinality(due)
    IN  told(handleDetectCycles(g, level, depth),
             SimpleCycles(buildDependencyGraph(g, level), Clamp(depth, 2, 6)))

\* No row of a trace is lost when it is listed by hop, and with risk labels
\* each node is told once, at its nearest.  In both directions at once that
\* fails: the root of a cycle of three is at hop 3, no other node is farther
\* than 1, and the list ends at hop 2.
TraceKeeps(g, root, dir, types, depth, min) ==
    LET hops(riskLabels) ==
            FlattenSeq(handleTraceCallPath(g, root, dir, types, depth, min, riskLabels).hops)
        once(shown, rows) ==
            /\ Len(shown) = Cardinality({r.node : r \in ToSet(rows)})
            /\ \A i \in DOMAIN shown : \A r \in ToSet(rows) :
                 r.node = shown[i].node => shown[i].hop <= r.hop
        kept(rows) == /\ Len(hops(FALSE)) = Len(rows)
                      /\ dir = "both" \/ once(hops(TRUE), rows)
    IN  kept(runTraceBFS(g, root, dir, types, Clamp(depth, 1, 5), min).visited)
=============================================================================
