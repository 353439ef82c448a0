------------------------------- MODULE Search -------------------------------
(* search_graph (store/search.go, tools/search.go), filter_by_degree and    *)
(* search_code: which rows a page shows, in which order, and out of how     *)
(* many.  SQL narrows the rows and cuts them; Go then matches the pattern,  *)
(* filters, sorts and pages.                                                *)
(*                                                                          *)
(* A name is a sequence of words.  A pattern is a set of alternatives, each *)
(* a sequence of [word, optional] with anything in between: an optional     *)
(* word is one that ?, * or {0,n} follows, or what stands for one of many   *)
(* letters, an escape or the inside of a class.  Letter case is left out.   *)
(* Nodes and edges are sequences, indexed by their ids.                     *)
EXTENDS Integers, SequencesExt

CONSTANTS
    NoValue,     \* an absent property, label, pattern or bound
    ScanAll,     \* 200000: the limit when Go must see every row
    Everything,  \* 100000: the limit of a search that names none
    Headroom,    \* 1000: rows read beyond the page
    LongWords    \* the words of three letters or more

ASSUME SearchBounds == {ScanAll, Everything, Headroom} \subseteq Nat \ {0}

Ids(s) == [i \in DOMAIN s |-> i]
Degree(g, n, end, type) ==
    Cardinality({e \in DOMAIN g.edge : /\ IF end = "in" THEN g.edge[e].tgt = n ELSE g.edge[e].src = n
                                       /\ type = NoValue \/ g.edge[e].type = type})

-----------------------------------------------------------------------------
(* Patterns.                                                                *)

\* The words in their order, with anything between them.
HasWords(name, words) ==
    LET step(at, w) ==
            LET found == {i \in (at + 1)..Len(name) : name[i] = w}
            IN  IF at > Len(name) \/ found = {} THEN Len(name) + 1
                ELSE CHOOSE i \in found : \A j \in found : i <= j
    IN  FoldLeft(step, 0, words) <= Len(name)

Required(alternative) ==
    LET kept == SelectSeq(alternative, LAMBDA a : ~a.optional)
    IN  [i \in DOMAIN kept |-> kept[i].word]

MatchString(pattern, name) == \E a \in pattern : HasWords(name, Required(a))

\* The literals that SQL asks for: what ends a literal is not looked at, nor what
\* an escape or a class means, so an optional word is asked for too.  None with
\* alternatives.
extractLikeHints(pattern) ==
    IF Cardinality(pattern) # 1 THEN {}
    ELSE {a.word : a \in {a \in ToSet(CHOOSE p \in pattern : TRUE) : a.word \in LongWords}}

buildLikeHintCondition(pattern, name) == extractLikeHints(pattern) \subseteq ToSet(name)

HasHints(pattern) == pattern # NoValue /\ extractLikeHints(pattern) # {}

\* The one word of a pattern without operators.
extractLiteralQuery(pattern) ==
    IF pattern # NoValue /\ Cardinality(pattern) = 1
         /\ \E p \in pattern : Len(p) = 1 /\ ~p[1].optional
      THEN (CHOOSE p \in pattern : TRUE)[1].word ELSE NoValue

-----------------------------------------------------------------------------
(* The rows.                                                                *)

buildSearchConditions(p, n) ==
    /\ p.label \in {NoValue, n.label}
    /\ p.file \in {NoValue, n.file}
    /\ n.label \notin p.excludeLabels
    /\ p.name = NoValue \/ buildLikeHintCondition(p.name, n.name)
    /\ p.qn = NoValue \/ buildLikeHintCondition(p.qn, n.qn)

\* The limit without the rows beyond the page.
computeSQLLimitOfPage(p) ==
    IF \/ p.minDegree >= 0 \/ p.maxDegree >= 0
       \/ p.name # NoValue /\ ~HasHints(p.name)
       \/ p.qn # NoValue /\ ~HasHints(p.qn)
      THEN ScanAll ELSE p.offset + p.limit

computeSQLLimit(p) ==
    LET room == (IF p.offset < 0 THEN 0 ELSE p.offset) + p.limit + Headroom
    IN  IF \/ p.minDegree >= 0 \/ p.maxDegree >= 0
           \/ p.name # NoValue /\ ~HasHints(p.name)
           \/ p.qn # NoValue /\ ~HasHints(p.qn)
           \/ room > ScanAll
          THEN ScanAll ELSE room

executeSearchQuery(g, p, limit) ==
    LET rows == SelectSeq(Ids(g.node), LAMBDA n : buildSearchConditions(p, g.node[n]))
    IN  SubSeq(rows, 1, IF limit < Len(rows) THEN limit ELSE Len(rows))

applyPatternFilters(g, rows, p) ==
    SelectSeq(rows, LAMBDA n : /\ p.name = NoValue \/ MatchString(p.name, g.node[n].name)
                               /\ p.qn = NoValue \/ MatchString(p.qn, g.node[n].qn))

\* Any direction but outbound counts what comes in.  A bound on complexity
\* below 1 is none, and with one a node without complexity is out.
Keeps(g, p, n) ==
    LET d == Degree(g, n, IF p.direction = "outbound" THEN "out" ELSE "in", p.relationship)
        c == g.node[n].complexity
    IN  /\ p.minDegree >= 0 => d >= p.minDegree
        /\ p.maxDegree >= 0 => d <= p.maxDegree
        /\ p.minComplexity > 0 \/ p.maxComplexity > 0 =>
             /\ c # NoValue
             /\ p.minComplexity > 0 => c >= p.minComplexity
             /\ p.maxComplexity > 0 => c <= p.maxComplexity
        /\ p.excludeEntryPoints => ~g.node[n].entry

buildFilteredResults(g, rows, p) == SelectSeq(rows, LAMBDA n : Keeps(g, p, n))

AllDegree(g, p, n) == Degree(g, n, "in", p.relationship) + Degree(g, n, "out", p.relationship)

compareRelevance(g, p, a, b) ==
    LET word == extractLiteralQuery(p.name)
        rank(n) == IF word = NoValue \/ g.node[n].name[1] # word THEN 2
                   ELSE IF Len(g.node[n].name) = 1 THEN 0 ELSE 1
    IN  IF rank(a) # rank(b) THEN rank(a) - rank(b) ELSE AllDegree(g, p, b) - AllDegree(g, p, a)

\* A stable sort: rows that compare equal keep their order.
sortSearchResults(g, rows, p) ==
    LET compare(a, b) == CASE p.sortBy = "name" -> g.node[a].order - g.node[b].order
                           [] p.sortBy = "degree" -> AllDegree(g, p, b) - AllDegree(g, p, a)
                           [] p.sortBy = "relevance" -> compareRelevance(g, p, a, b)
    IN  SortSeq(rows, LAMBDA a, b : compare(a, b) < 0 \/ (compare(a, b) = 0 /\ a < b))

paginateResults(rows, offset, limit) ==
    LET start == IF offset < 0 THEN 0 ELSE offset
        end == IF start + limit > Len(rows) THEN Len(rows) ELSE start + limit
    IN  [results |-> SubSeq(rows, start + 1, end), total |-> Len(rows)]

StoreSearch(g, asked) ==
    LET p == IF asked.limit <= 0 THEN [asked EXCEPT !.limit = Everything] ELSE asked
        rows == executeSearchQuery(g, p, computeSQLLimit(p))
        kept == buildFilteredResults(g, applyPatternFilters(g, rows, p), p)
        answer(page) == page @@ [hasMore |-> p.offset + p.limit < page.total]
    IN  answer(paginateResults(sortSearchResults(g, kept, p), p.offset, p.limit))

\* The handler leaves communities out unless labels are given.
searchParamsFromArgs(p) ==
    IF p.excludeLabels = NoValue THEN [p EXCEPT !.excludeLabels = {"Community"}] ELSE p

handleSearchGraph(g, p) == StoreSearch(g, searchParamsFromArgs(p))

-----------------------------------------------------------------------------
(* filter_by_degree: one query, with the nodes no edge touches at 0.  The   *)
(* count covers all, the examples stop at the limit.                        *)

DegreeIs(d, op, value) == CASE op = "eq" -> d = value
                            [] op = "lt" -> d < value
                            [] op = "le" -> d <= value
                            [] op = "gt" -> d > value
                            [] op = "ge" -> d >= value

handleDegreeFilter(g, label, end, type, op, value, askedLimit, excludeEntry) ==
    LET limit == IF askedLimit < 1 THEN 20 ELSE IF askedLimit > 200 THEN 200 ELSE askedLimit
        rows == SelectSeq(Ids(g.node), LAMBDA n :
                    /\ g.node[n].label = label
                    /\ ~excludeEntry \/ ~g.node[n].entry
                    /\ DegreeIs(Degree(g, n, end, IF type = NoValue THEN "CALLS" ELSE type), op, value))
    IN  [count |-> Len(rows), examples |-> paginateResults(rows, 0, limit).results]

-----------------------------------------------------------------------------
(* search_code.  disk maps a path to the lines that match, or to NoValue    *)
(* where the file is gone; the indexed files are searched in turn, and one  *)
(* that cannot be opened fails the call.                                    *)

collectSearchFilePaths(g, glob) ==
    LET files == SelectSeq(Ids(g.node), LAMBDA n :
                    g.node[n].label = "File" /\ glob \in {NoValue, g.node[n].file})
    IN  [i \in DOMAIN files |-> g.node[files[i]].file]

searchFile(disk, path) ==
    [i \in DOMAIN disk[path] |-> [file |-> path, line |-> disk[path][i]]]

handleSearchCode(g, disk, glob, maxResults, offset) ==
    LET paths == collectSearchFilePaths(g, glob)
        matches == FlattenSeq([i \in DOMAIN paths |-> searchFile(disk, paths[i])])
        page == paginateResults(matches, offset, maxResults)
    IN  IF \E i \in DOMAIN paths : disk[paths[i]] = NoValue THEN NoValue
        ELSE page @@ [hasMore |-> offset + Len(page.results) < page.total]

-----------------------------------------------------------------------------
(* What a search is measured by.                                            *)

Pages(answer(_), step) ==
    LET from[offset \in 0..20] ==
            LET rest(page) == page.results \o (IF page.hasMore THEN from[offset + step] ELSE <<>>)
            IN  IF offset > 12 THEN <<>> ELSE rest(answer(offset))
    IN  from[0]

Wanted(g, p) ==
    {n \in DOMAIN g.node :
       /\ p.label \in {NoValue, g.node[n].label} /\ p.file \in {NoValue, g.node[n].file}
       /\ g.node[n].label \notin p.excludeLabels
       /\ p.name = NoValue \/ MatchString(p.name, g.node[n].name)
       /\ p.qn = NoValue \/ MatchString(p.qn, g.node[n].qn)
       /\ Keeps(g, p, n)}

\* A literal that the pattern may do without drops the rows that lack it.
AsksTooMuch(pattern) ==
    pattern # NoValue /\ Cardinality(pattern) = 1
      /\ \E p \in pattern : \E i \in DOMAIN p : p[i].optional /\ p[i].word \in LongWords

\* Beyond the headroom the first rows of the table are sorted, not all.
Roomy(g, p) ==
    Cardinality({n \in DOMAIN g.node : p.label \in {NoValue, g.node[n].label}}) <= p.limit + Headroom

\* Going from page to page while more is announced shows every matching row
\* exactly once, in one order, and each page tells the same total.
SearchPagesPartition(g, asked) ==
    LET p == searchParamsFromArgs(asked)
        at(offset) == handleSearchGraph(g, [asked EXCEPT !.offset = offset])
        exact(all, wanted) ==
          /\ ToSet(all) = wanted /\ Len(all) = Cardinality(wanted)
          /\ at(0).total = Len(all)
          /\ all = sortSearchResults(g, all, p)
    IN  Roomy(g, p) /\ ~AsksTooMuch(p.name) /\ ~AsksTooMuch(p.qn) =>
          exact(Pages(at, p.limit), Wanted(g, p))

CodePagesPartition(g, disk, glob, step) ==
    LET at(offset) == handleSearchCode(g, disk, glob, step, offset)
        due == UNION {{[file |-> f, line |-> disk[f][i]] : i \in DOMAIN disk[f]} :
                        f \in {g.node[n].file : n \in {n \in DOMAIN g.node :
                                 g.node[n].label = "File" /\ glob \in {NoValue, g.node[n].file}}}}
        exact(all) == ToSet(all) = due /\ Len(all) = Cardinality(due)
    IN  at(0) # NoValue => exact(Pages(at, step))

\* filter_by_degree and search_graph count a node's degree alike: asked for one
\* degree, they find as many nodes.
DegreeToolsAgree(g, p, value) ==
    LET asked == [p EXCEPT !.label = "Function", !.file = NoValue, !.name = NoValue, !.qn = NoValue,
                           !.minDegree = value, !.maxDegree = value, !.minComplexity = -1,
                           !.maxComplexity = -1, !.relationship = "CALLS"]
        end == IF p.direction = "outbound" THEN "out" ELSE "in"
    IN  handleSearchGraph(g, asked).total
          = handleDegreeFilter(g, "Function", end, NoValue, "eq", value, p.limit,
                               p.excludeEntryPoints).count
=============================================================================
