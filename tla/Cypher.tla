------------------------------- MODULE Cypher -------------------------------
(* Planning and execution of a query (internal/cypher/planner.go and        *)
(* executor.go) over the graphs of several projects.  One query can be      *)
(* answered by four routes: an aggregate in SQL, one JOIN for the first     *)
(* hop, a batch per hop, or a breadth-first search; each filters and caps   *)
(* at places of its own.                                                    *)
(*                                                                          *)
(* A variable of the query is its position: node 1 is scanned, hop i binds  *)
(* edge i and node i+1.  A binding is [n |-> nodes, e |-> edges], 0 for the *)
(* edge of a variable-length hop.  SQL returns rows in the order of their   *)
(* ids.  Names are words of one letter, so that containing a word is being  *)
(* it; LIKE ignores its case.  ORDER BY, which permutes rows, is left out.  *)
EXTENDS Integers, SequencesExt

CONSTANTS
    Rows,       \* maxRows(): the cap of the answer
    CountCap,   \* absoluteMaxRows * 10: the cap of the bindings under COUNT
    Unbounded,  \* the depth of a `*` without an upper bound
    Nil,        \* an absent property, label, or edge type list
    Fold(_)     \* the lower case of a word

ASSUME CapsAssumption == {Rows, CountCap, Unbounded} \subseteq Nat \ {0}

(* A graph: node and edge are sequences of records, indexed by their ids;   *)
(* dead holds the projects whose tables cannot be read.                     *)
Project(g) == {g.node[i].project : i \in DOMAIN g.node}
ListProjects(g) == SetToSortSeq(Project(g), <)

Cut(rows, cap) ==
    [rows |-> SubSeq(rows, 1, IF Len(rows) > cap THEN cap ELSE Len(rows)),
     cut |-> Len(rows) > cap]
Marked(x, cut) == [x EXCEPT !.cut = @ \/ cut]

bindingCap(q) == IF q.ret.count THEN CountCap ELSE 2 * Rows

-----------------------------------------------------------------------------
(* The plan.                                                                *)

splitWhereFilters(q) ==
    IF Len(q.hops) > 0 /\ q.op = "AND"
      THEN [early |-> {c \in q.where : c.on = <<"n", 1>>},
            late |-> {c \in q.where : c.on # <<"n", 1>>}]
      ELSE [early |-> {}, late |-> q.where]

FilterWhere(op, conds) ==
    IF conds = {} THEN <<>> ELSE <<[step |-> "filter", op |-> op, conds |-> conds]>>

BuildPlan(q) ==
    LET split == splitWhereFilters(q)
    IN  <<[step |-> "scan", node |-> q.from]>>
        \o FilterWhere("AND", split.early)
        \o [i \in 1..Len(q.hops) |-> [step |-> "expand", at |-> i, hop |-> q.hops[i]]]
        \o FilterWhere(q.op, split.late)

-----------------------------------------------------------------------------
(* Conditions, in Go and in SQL.                                            *)

Property(g, b, c) ==
    LET i == c.on[2]
    IN  IF c.on[1] = "n"
          THEN g.node[b.n[i]][c.prop]
          ELSE IF b.e[i] = 0 THEN Nil ELSE g.edge[b.e[i]][c.prop]

Unbound(b, c) ==
    \/ c.on[1] = "n" /\ c.on[2] > Len(b.n)
    \/ c.on[1] = "e" /\ (c.on[2] > Len(b.e) \/ b.e[c.on[2]] = 0)

evaluateCondition(g, b, c) ==
    LET v == Property(g, b, c)
    IN  /\ ~Unbound(b, c)
        /\ CASE c.op = "=" -> v = c.val
             [] c.op = "<>" -> v # c.val
             [] c.op = "IS NULL" -> v = Nil
             [] c.op \in {"CONTAINS", "=~"} -> v = c.val

evaluateConditions(g, b, op, conds) ==
    IF op = "OR" THEN \E c \in conds : evaluateCondition(g, b, c)
                 ELSE \A c \in conds : evaluateCondition(g, b, c)

SQLPushable == {"=", "<>", "CONTAINS"}
sqlPushableColumns == {"name", "label"}

scanPushdownSQL(c) ==
    c.on = <<"n", 1>> /\ c.prop \in sqlPushableColumns /\ c.op \in SQLPushable

edgePushdownSQL(c) == c.on = <<"e", 1>> /\ c.op \in SQLPushable

SQLHolds(g, b, c) ==
    LET v == Property(g, b, c)
    IN  /\ v # Nil
        /\ CASE c.op = "=" -> v = c.val
             [] c.op = "<>" -> v # c.val
             [] c.op = "CONTAINS" -> Fold(v) = Fold(c.val)

SQLWhere(g, b, op, conds) ==
    IF op = "OR" THEN \E c \in conds : SQLHolds(g, b, c)
                 ELSE \A c \in conds : SQLHolds(g, b, c)

HasLabel(g, n, pattern) == pattern.label \in {Nil, g.node[n].label}
nodeMatchesProps(g, n, pattern) == pattern.name \in {Nil, g.node[n].name}

-----------------------------------------------------------------------------
(* The steps.  Each returns [rows, cut]: the bindings, and whether some     *)
(* were dropped.                                                            *)

execScan(g, p, pattern, filter, cap) ==
    LET conds == filter.conds
        pushed == IF filter.op = "OR"
                    THEN IF \A c \in conds : scanPushdownSQL(c) THEN conds ELSE {}
                    ELSE {c \in conds : scanPushdownSQL(c)}
        rest == conds \ pushed
        selected(n) ==
            /\ g.node[n].project = p
            /\ HasLabel(g, n, pattern)
            /\ pushed = {} \/ SQLWhere(g, [n |-> <<n>>, e |-> <<>>], filter.op, pushed)
        sql == SelectSeq([i \in DOMAIN g.node |-> i], selected)
        limited == IF pattern.name = Nil /\ rest = {}
                     THEN Cut(sql, cap) ELSE [rows |-> sql, cut |-> FALSE]
        kept(n) ==
            /\ nodeMatchesProps(g, n, pattern)
            /\ \/ rest = {}
               \/ evaluateConditions(g, [n |-> <<n>>, e |-> <<>>], filter.op, rest)
        ns == SelectSeq(limited.rows, kept)
    IN  [rows |-> [i \in DOMAIN ns |-> [n |-> <<ns[i]>>, e |-> <<>>]],
         cut |-> limited.cut]

canFuseJoin(scan, hop) ==
    /\ hop.min = 1 /\ hop.max = 1 /\ hop.types # {} /\ hop.dir # "any"
    /\ scan.name = Nil

Near(g, e, dir) == IF dir = "inbound" THEN g.edge[e].tgt ELSE g.edge[e].src
Far(g, e, dir) == IF dir = "inbound" THEN g.edge[e].src ELSE g.edge[e].tgt

Join(g, e, dir) == [n |-> <<Near(g, e, dir), Far(g, e, dir)>>, e |-> <<e>>]

execJoinScanExpand(g, p, pattern, hop, filter, cap) ==
    LET pushed == IF filter.op = "OR" THEN {}
                  ELSE {c \in filter.conds : edgePushdownSQL(c) \/ scanPushdownSQL(c)}
        selected(e) ==
            /\ g.edge[e].project = p /\ g.edge[e].type \in hop.types
            /\ HasLabel(g, Near(g, e, hop.dir), pattern)
            /\ HasLabel(g, Far(g, e, hop.dir), hop.to)
            /\ SQLWhere(g, Join(g, e, hop.dir), "AND", pushed)
        fetched == Cut(SelectSeq([i \in DOMAIN g.edge |-> i], selected), cap + 1).rows
        kept(e) == nodeMatchesProps(g, Far(g, e, hop.dir), hop.to)
        es == SelectSeq(fetched, kept)
    IN  Cut([i \in DOMAIN es |-> Join(g, es[i], hop.dir)], cap)

Extend(b, e, n) == [n |-> Append(b.n, n), e |-> Append(b.e, e)]

edgeTargetID(g, e, from, dir) ==
    IF dir = "any" THEN IF g.edge[e].src = from THEN g.edge[e].tgt ELSE g.edge[e].src
                   ELSE Far(g, e, dir)

\* One hop, for all bindings at once; the loop stops at the first binding
\* that takes the result over twice its cap.
expandFixedLengthBatch(g, hop, bindings, cap) ==
    LET edgesOf(from) ==
            LET touches(e) ==
                    /\ hop.types = {} \/ g.edge[e].type \in hop.types
                    /\ \/ hop.dir # "inbound" /\ g.edge[e].src = from
                       \/ hop.dir \in {"inbound", "any"} /\ g.edge[e].tgt = from
            IN  SelectSeq([i \in DOMAIN g.edge |-> i], touches)
        expanded(b) ==
            LET from == b.n[Len(b.n)]
                fits(e) == LET n == edgeTargetID(g, e, from, hop.dir)
                           IN  HasLabel(g, n, hop.to) /\ nodeMatchesProps(g, n, hop.to)
                es == SelectSeq(edgesOf(from), fits)
            IN  [i \in DOMAIN es |->
                   Extend(b, es[i], edgeTargetID(g, es[i], from, hop.dir))]
        add(acc, b) == IF acc.cut THEN acc ELSE Cut(acc.rows \o expanded(b), 2 * cap)
    IN  FoldLeft(add, [rows |-> <<>>, cut |-> FALSE], bindings)

\* Store.BFSNodes: one row per node and distance; any direction but inbound
\* is outbound.
BFSNodes(g, start, dir, types, depth, limit) ==
    LET next(S) == {Far(g, e, dir) : e \in {e \in DOMAIN g.edge :
                        /\ Near(g, e, dir) \in S
                        /\ types = {} \/ g.edge[e].type \in types}}
        at[h \in 0..depth] == IF h = 0 THEN {start} ELSE next(at[h - 1])
        reached(ns, h) == [i \in DOMAIN ns |-> [node |-> ns[i], hop |-> h]]
        level(h) == reached(SetToSortSeq(at[h], <), h)
    IN  Cut(FlattenSeq([h \in 1..depth |-> level(h)]), limit)

expandVariableLength(g, b, hop, cap) ==
    LET from == b.n[Len(b.n)]
        depth == IF hop.max = 0 THEN Unbounded ELSE hop.max
        fits(n) == HasLabel(g, n, hop.to) /\ nodeMatchesProps(g, n, hop.to)
        far(v) == v.hop >= hop.min /\ fits(v.node)
        itself == IF hop.min = 0 /\ fits(from) THEN <<Extend(b, 0, from)>> ELSE <<>>
        extended(visited) == [i \in DOMAIN visited |-> Extend(b, 0, visited[i].node)]
        bound(bfs) == [rows |-> itself \o extended(SelectSeq(bfs.rows, far)),
                       cut |-> bfs.cut \/ hop.max = 0]
    IN  bound(BFSNodes(g, from, hop.dir, hop.types, depth, cap))

\* Loops that add up what x found, and stop when the cap is passed.
Added(acc, x, cap) ==
    LET all == Cut(acc.rows \o x.rows, cap)
    IN  [acc EXCEPT !.rows = all.rows, !.stop = all.cut, !.cut = @ \/ x.cut \/ all.cut]

execExpand(g, hop, bindings, cap) ==
    LET add(acc, b) ==
            IF acc.stop THEN acc ELSE Added(acc, expandVariableLength(g, b, hop, cap), cap)
    IN  IF hop.min = 1 /\ hop.max = 1
          THEN expandFixedLengthBatch(g, hop, bindings, cap)
          ELSE FoldLeft(add, [rows |-> <<>>, cut |-> FALSE, stop |-> FALSE], bindings)

execFilter(g, step, bindings) ==
    LET match(b) == evaluateConditions(g, b, step.op, step.conds)
    IN  SelectSeq(bindings, match)

NoFilter == [step |-> "filter", op |-> "AND", conds |-> {}]
FilterAt(steps, i) ==
    IF i <= Len(steps) /\ steps[i].step = "filter" THEN steps[i] ELSE NoFilter

\* One project.  A hop that the scan has taken into its JOIN is skipped, and
\* so is a filter that directly follows the scan: execScan has applied it.
executeStepsForProject(g, p, steps, cap) ==
    LET fused == Len(steps) > 1 /\ steps[2].step = "expand" /\ canFuseJoin(steps[1].node, steps[2].hop)
        scan == IF fused
                  THEN execJoinScanExpand(g, p, steps[1].node, steps[2].hop,
                                          FilterAt(steps, 3), cap)
                  ELSE execScan(g, p, steps[1].node, FilterAt(steps, 2), cap)
        capped(x, when) == IF when THEN Marked(Cut(x.rows, cap), x.cut) ELSE x
        Then(acc, i) ==
            Marked(capped(IF steps[i].step = "filter"
                            THEN [rows |-> IF i = 2 THEN acc.rows
                                           ELSE execFilter(g, steps[i], acc.rows),
                                  cut |-> FALSE]
                            ELSE execExpand(g, steps[i].hop, acc.rows, cap),
                          steps[i].step = "expand" \/ (i = Len(steps) /\ i # 2)),
                   acc.cut)
    IN  FoldLeft(Then, capped(scan, Len(steps) = 1),
                           [i \in 1..(Len(steps) - (IF fused THEN 2 ELSE 1)) |->
                                 i + (IF fused THEN 2 ELSE 1)])

\* All projects in turn: one that cannot be read is left out and marked, and
\* the loop stops when the cap is passed.
Bindings(g, steps, cap) ==
    LET add(acc, p) ==
            IF acc.stop THEN acc
            ELSE IF p \in g.dead THEN [acc EXCEPT !.cut = TRUE, !.skipped = @ \cup {p}]
            ELSE Added(acc, executeStepsForProject(g, p, steps, cap), cap)
    IN  FoldLeft(add, [rows |-> <<>>, cut |-> FALSE, stop |-> FALSE, skipped |-> {}],
                 ListProjects(g))

-----------------------------------------------------------------------------
(* The answer.  A row of a COUNT is [group, count], any other the values of *)
(* the RETURN items.                                                        *)

applyLimit(rows, ret) == Cut(rows, IF ret.limit = Nil THEN Rows ELSE ret.limit)

Cell(g, b, item) == IF Unbound(b, item) THEN Nil ELSE Property(g, b, item)
Row(g, b, ret) == [i \in DOMAIN ret.items |-> Cell(g, b, ret.items[i])]

simpleProjection(g, bindings, ret) ==
    LET rows == [i \in DOMAIN bindings |-> Row(g, bindings[i], ret)]
        new(acc, r) == IF ret.distinct /\ Contains(acc, r) THEN acc ELSE Append(acc, r)
    IN  FoldLeft(new, <<>>, rows)

Grouped(keys, weights) ==
    LET order == FoldLeft(LAMBDA acc, k : IF Contains(acc, k) THEN acc ELSE Append(acc, k),
                          <<>>, keys)
        total(k) == FoldLeft(LAMBDA n, i : IF keys[i] = k THEN n + weights[i] ELSE n, 0,
                             [i \in DOMAIN keys |-> i])
    IN  [i \in DOMAIN order |-> [group |-> order[i], count |-> total(order[i])]]

\* A COUNT without groups over nothing is one row of 0.
CountRows(rows, ret) ==
    IF rows = <<>> /\ ret.items = <<>> THEN <<[group |-> <<>>, count |-> 0]>> ELSE rows

aggregateResults(g, bindings, ret) ==
    CountRows(Grouped([i \in DOMAIN bindings |-> Row(g, bindings[i], ret)],
                      [i \in DOMAIN bindings |-> 1]), ret)

\* The earlier check of the steps: the middle of three could be a hop.
parseFusibleStepsByEnds(steps) ==
    Len(steps) \in {2, 3} /\ steps[Len(steps)].step = "expand"

parseFusibleSteps(steps) ==
    \/ Len(steps) = 2 /\ steps[2].step = "expand"
    \/ Len(steps) = 3 /\ steps[2].step = "filter" /\ steps[3].step = "expand"

\* validatePushability: the direction of the hop is not asked for.
validatePushability(steps, ret) ==
    LET hop == steps[Len(steps)].hop
    IN  /\ hop.min = 1 /\ hop.max = 1 /\ hop.types # {}
        /\ steps[1].node.name = Nil /\ hop.to.name = Nil
        /\ \A i \in DOMAIN ret.items : ret.items[i].prop \in sqlPushableColumns
        /\ \A c \in FilterAt(steps, 2).conds :
             c.prop \in sqlPushableColumns /\ c.op \in SQLPushable

\* A direction other than outbound joins as inbound does.
executeAggregateForProject(g, p, steps, ret) ==
    LET hop == steps[Len(steps)].hop
        dir == IF hop.dir = "outbound" THEN "outbound" ELSE "inbound"
        side(item) == IF item.on = <<"n", 1>> THEN item ELSE [item EXCEPT !.on = <<"n", 2>>]
        joined(e) ==
            /\ g.edge[e].project = p /\ g.edge[e].type \in hop.types
            /\ HasLabel(g, Near(g, e, dir), steps[1].node)
            /\ HasLabel(g, Far(g, e, dir), hop.to)
            /\ SQLWhere(g, Join(g, e, dir), "AND", FilterAt(steps, 2).conds)
        es == SelectSeq([i \in DOMAIN g.edge |-> i], joined)
        key(e) == [i \in DOMAIN ret.items |->
                     Property(g, Join(g, e, dir), side(ret.items[i]))]
        rows == Grouped([i \in DOMAIN es |-> key(es[i])], [i \in DOMAIN es |-> 1])
    IN  \* COUNT(*) without GROUP BY is a row even over nothing
        CountRows(rows, ret)

mergeAggregateRows(rows) ==
    Grouped([i \in DOMAIN rows |-> rows[i].group], [i \in DOMAIN rows |-> rows[i].count])

tryAggregateSQL(g, steps, ret) ==
    LET live == SelectSeq(ListProjects(g), LAMBDA p : p \notin g.dead)
    IN  CountRows(mergeAggregateRows(FlattenSeq([i \in DOMAIN live |->
            executeAggregateForProject(g, live[i], steps, ret)])), ret)

AggregateInSQL(q) ==
    /\ q.ret.count
    /\ parseFusibleSteps(BuildPlan(q))
    /\ validatePushability(BuildPlan(q), q.ret)

Execute(g, q) ==
    LET steps == BuildPlan(q)
        answer(limited, skipped, cut) ==
            [rows |-> limited.rows, skipped |-> skipped,
             truncated |-> limited.cut \/ skipped # {} \/ cut]
        ofBindings(bs) ==
            answer(applyLimit(IF q.ret.count THEN aggregateResults(g, bs.rows, q.ret)
                              ELSE simpleProjection(g, bs.rows, q.ret), q.ret),
                   bs.skipped, bs.cut)
    IN  IF AggregateInSQL(q)
          THEN answer(applyLimit(tryAggregateSQL(g, steps, q.ret), q.ret),
                      Project(g) \cap g.dead, FALSE)
          ELSE ofBindings(Bindings(g, steps, bindingCap(q)))

-----------------------------------------------------------------------------
(* What a query means: all bindings of its pattern in the projects that can *)
(* be read, whatever the route and the caps.                                *)

Neighbours(g, n, hop) ==
    {<<e, m>> \in (DOMAIN g.edge) \X (DOMAIN g.node) :
       /\ hop.types = {} \/ g.edge[e].type \in hop.types
       /\ \/ hop.dir # "inbound" /\ g.edge[e].src = n /\ g.edge[e].tgt = m
          \/ hop.dir # "outbound" /\ g.edge[e].tgt = n /\ g.edge[e].src = m}

Reached(g, n, hop) ==
    LET at[h \in 0..(IF hop.max = 0 THEN Unbounded ELSE hop.max)] ==
            IF h = 0 THEN {n}
            ELSE {x[2] : x \in UNION {Neighbours(g, m, hop) : m \in at[h - 1]}}
    IN  {<<0, m>> : m \in UNION {at[h] : h \in {h \in DOMAIN at : h >= hop.min}}}

Fits(g, n, pattern) == HasLabel(g, n, pattern) /\ nodeMatchesProps(g, n, pattern)

Matches(g, q) ==
    LET start == {[n |-> <<n>>, e |-> <<>>] : n \in {n \in DOMAIN g.node :
                     g.node[n].project \notin g.dead /\ Fits(g, n, q.from)}}
        follow(bs, hop) ==
            UNION {LET from == b.n[Len(b.n)]
                       found == IF hop.min = 1 /\ hop.max = 1
                                  THEN Neighbours(g, from, hop) ELSE Reached(g, from, hop)
                   IN  {Extend(b, x[1], x[2]) : x \in {x \in found : Fits(g, x[2], hop.to)}}
                   : b \in bs}
    IN  {b \in FoldLeft(follow, start, q.hops) : q.where = {} \/ evaluateConditions(g, b, q.op, q.where)}

Several(q) == \E i \in DOMAIN q.hops : q.hops[i].min # 1 \/ q.hops[i].max # 1

\* How often a row is due.  A node that a variable-length hop reaches at two
\* distances is returned twice, so such rows are compared as sets.
Due(g, q, r) == Cardinality({b \in Matches(g, q) : Row(g, b, q.ret) = r})
Times(rows, r) == Cardinality({i \in DOMAIN rows : rows[i] = r})

\* The counts of the groups, added up, are the bindings.
Complete(g, q, rows) ==
    LET due == {Row(g, b, q.ret) : b \in Matches(g, q)}
        shown == ToSet(IF q.ret.count THEN [i \in DOMAIN rows |-> rows[i].group] ELSE rows)
    IN  /\ shown = due \/ (q.ret.count /\ due = {} /\ shown \subseteq {<<>>})
        /\ ~Several(q) =>
             IF q.ret.count
               THEN \A i \in DOMAIN rows : rows[i].count = Due(g, q, rows[i].group)
               ELSE \A r \in due :
                      Times(rows, r) = IF q.ret.distinct THEN 1 ELSE Due(g, q, r)

\* Where the routes are known to differ: LIKE ignores case; an edge without
\* the property fails `<>` in SQL only; the inline name of a fused hop's
\* target is applied after the cap; and neither the SQL aggregate nor the
\* search follows an undirected hop both ways.
KnownGap(q) ==
    \/ \E c \in q.where : scanPushdownSQL(c) /\ c.op = "CONTAINS"
    \/ /\ q.hops # <<>>
       /\ \/ canFuseJoin(q.from, q.hops[1]) /\ q.hops[1].to.name # Nil
          \/ \E c \in q.where : edgePushdownSQL(c) /\ c.op \in {"<>", "CONTAINS"}
          \/ \E i \in DOMAIN q.hops : q.hops[i].dir = "any" /\ (Several(q) \/ AggregateInSQL(q))

\* An answer that is not marked truncated is the whole answer, by whichever
\* of the routes it was made; and a project that could not be read is named.
UntruncatedIsComplete(g, q) ==
    LET whole(a) == ~a.truncated => Complete(g, q, a.rows) /\ g.dead = {}
    IN  ~KnownGap(q) => whole(Execute(g, q))
=============================================================================
