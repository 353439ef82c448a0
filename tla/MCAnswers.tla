----------------------------- MODULE MCAnswers -----------------------------
(* The pure parts of the system for TLC: a question is drawn from a bounded *)
(* set, and each property compares its answer with what the question means. *)
EXTENDS Cypher, Search, MCOverview, MCResolution, MCFilesWalks

CONSTANT None   \* what is absent in links, evidence and compiler indexes

H == INSTANCE MCHttp
E == INSTANCE MCEvidence
Scip == INSTANCE MCScip

MCFold(w) == IF w = "A" THEN "a" ELSE w

-----------------------------------------------------------------------------
(* Cypher: two projects; a cycle with a self-loop, parallel edges and a     *)
(* dangling leaf; labels F and M, names that differ in case only.           *)

Node(p, l, w, note) == [project |-> p, label |-> l, name |-> w, note |-> note]
Edge(p, t, s, d, rule) == [project |-> p, type |-> t, src |-> s, tgt |-> d, rule |-> rule]

Cycle == [dead |-> {},
          node |-> <<Node(1, "F", "a", "x"), Node(1, "F", "A", Nil), Node(1, "M", "b", Nil)>>,
          edge |-> <<Edge(1, "C", 1, 2, "s"), Edge(1, "C", 2, 1, Nil), Edge(1, "C", 1, 1, "t"),
                     Edge(1, "D", 3, 1, Nil), Edge(1, "D", 3, 2, "s"), Edge(1, "D", 2, 3, Nil)>>]
Two == [dead |-> {},
        node |-> <<Node(1, "F", "a", Nil), Node(1, "F", "b", "x"),
                   Node(2, "F", "a", Nil), Node(2, "M", "b", Nil)>>,
        edge |-> <<Edge(1, "C", 1, 2, "s"), Edge(1, "D", 1, 2, Nil), Edge(2, "C", 3, 4, Nil)>>]
Graphs == {Cycle, Two, [Two EXCEPT !.dead = {2}]}

AnyNode == [label |-> Nil, name |-> Nil]
Patterns == {AnyNode, [label |-> "F", name |-> Nil], [label |-> Nil, name |-> "b"]}
Hop(t, d, m, to) == [types |-> t, dir |-> d, min |-> m[1], max |-> m[2], to |-> to]
Hops1 == {<<Hop(t, d, m, to)>> : t \in {{}, {"C"}, {"C", "D"}}, d \in {"outbound", "inbound", "any"},
                                 m \in {<<1, 1>>, <<0, 2>>, <<1, 0>>}, to \in Patterns}
Hops2 == {<<Hop({"C"}, d, <<1, 1>>, AnyNode), Hop(t, e, m, to)>> :
            t \in {{}, {"D"}}, d \in {"outbound", "any"}, e \in {"outbound", "inbound"},
            m \in {<<1, 1>>, <<1, 2>>}, to \in {AnyNode}}
Cond(on, i, prop, op, val) == [on |-> <<on, i>>, prop |-> prop, op |-> op, val |-> val]
Wheres == {{}, {Cond("n", 1, "name", "=", "a")},
           {Cond("n", 1, "name", "<>", "a"), Cond("n", 1, "note", "IS NULL", Nil)},
           {Cond("n", 1, "name", "CONTAINS", "a")}, {Cond("n", 2, "name", "=", "b")},
           {Cond("n", 1, "label", "=", "F"), Cond("n", 2, "name", "=~", "a")},
           {Cond("e", 1, "rule", "=", "s")}, {Cond("e", 1, "rule", "<>", "s")}}
Ret(c, items, d, l) == [count |-> c, items |-> items, distinct |-> d, limit |-> l]
NameOf(i) == Cond("n", i, "name", "", Nil)
Returns == {Ret(TRUE, <<>>, FALSE, Nil), Ret(TRUE, <<NameOf(2)>>, FALSE, Nil),
            Ret(FALSE, <<NameOf(1), NameOf(2)>>, FALSE, Nil), Ret(FALSE, <<NameOf(2)>>, TRUE, Nil),
            Ret(FALSE, <<NameOf(1)>>, FALSE, 1)}
CypherQueries(from, g) ==
    {[topic |-> "cypher", g |-> g,
      q |-> [from |-> from, hops |-> h, op |-> op, where |-> w, ret |-> r]] :
        h \in {<<>>} \cup Hops1 \cup Hops2, op \in {"AND"}, w \in Wheres, r \in Returns}
    \cup
    {[topic |-> "cypher", g |-> g,
      q |-> [from |-> from, hops |-> h, op |-> "OR", where |-> w, ret |-> r]] :
        h \in {<<>>} \cup Hops1, w \in {w \in Wheres : Cardinality(w) = 2}, r \in Returns}

-----------------------------------------------------------------------------
(* Searches: names of one or two words, a community, nodes without          *)
(* complexity, and a file node for each of two files.                       *)

Item(label, name, qn, file, complexity, entry, order) ==
    [label |-> label, name |-> name, qn |-> qn, file |-> file, complexity |-> complexity,
     entry |-> entry, order |-> order, start |-> order, end |-> order + 1]
Table == <<Item("Function", <<"load">>, <<"p", "load">>, "p", 1, FALSE, 4),
           Item("Function", <<"load", "all">>, <<"p", "load">>, "p", 3, TRUE, 5),
           Item("File", <<"p">>, <<"p">>, "p", NoValue, FALSE, 6),
           Item("Function", <<"all", "load">>, <<"q", "all">>, "q", 2, FALSE, 2),
           Item("Community", <<"all">>, <<"all">>, NoValue, NoValue, FALSE, 1),
           Item("File", <<"q">>, <<"q">>, "q", NoValue, FALSE, 3)>>
Tie(s, d) == [src |-> s, tgt |-> d, type |-> IF s = 1 THEN "USAGE" ELSE "CALLS"]
Tables == {[node |-> Table, edge |-> <<Tie(2, 1), Tie(4, 1), Tie(1, 4), Tie(5, 2)>>],
           [node |-> Table, edge |-> <<Tie(1, 1), Tie(4, 2), Tie(2, 2)>>]}

Words(ws, optional) == [i \in DOMAIN ws |-> [word |-> ws[i], optional |-> i \in optional]]
NamePatterns == {NoValue, {Words(<<"load">>, {})}, {Words(<<"load", "all">>, {2})},
                 {Words(<<"p">>, {})}, {Words(<<"load", "all">>, {})},
                 {Words(<<"load">>, {}), Words(<<"all">>, {})}}
SearchQuestions(g) ==
    {[topic |-> "search", g |-> g,
      p |-> [label |-> l, file |-> f, excludeLabels |-> NoValue, name |-> n, qn |-> q,
             minDegree |-> d[1], maxDegree |-> d[2], minComplexity |-> c, maxComplexity |-> c,
             direction |-> dir, relationship |-> r, limit |-> lim, offset |-> 0,
             sortBy |-> s, excludeEntryPoints |-> e]] :
        l \in {NoValue, "Function"}, f \in {NoValue, "q"}, n \in NamePatterns,
        q \in {NoValue, {Words(<<"p">>, {})}}, d \in {<<-1, -1>>, <<1, -1>>, <<0, 1>>},
        c \in {-1, 2}, dir \in {"inbound", "outbound"}, r \in {NoValue, "CALLS"},
        lim \in {1, 2}, s \in {"relevance", "name", "degree"}, e \in BOOLEAN}
    \cup [topic : {"searchcode"}, g : {g}, glob : {NoValue, "p"}, step : {1, 2},
          disk : [{"p", "q"} -> {NoValue, <<>>, <<3>>, <<1, 4, 7>>}]]

-----------------------------------------------------------------------------
Init == \/ ask \in [topic : {"graph"}, from : Patterns, g : Graphs]
        \/ ask \in [topic : {"table"}, g : Tables]
        \/ ask \in OverviewSeeds \cup ClusterSeeds \cup NameSeeds \cup H!HttpSeeds \cup E!EvidenceSeeds
                  \cup Scip!ScipSeeds \cup WalkSeeds \cup FileSeeds \cup EmbedSeeds
AskCypher ==
    /\ ask.topic = "graph"
    /\ \E x \in CypherQueries(ask.from, ask.g) : ask' = x
AskSearch ==
    /\ ask.topic = "table"
    /\ \E x \in SearchQuestions(ask.g) : ask' = x
AskOverview == \E x \in OverviewQuestions(ask) : ask' = x
AskClusters ==
    /\ ask.topic = "calls among five"
    /\ \E x \in ClusterQuestions(ask) : ask' = x
AskNames == \E x \in NameQuestions(ask) : ask' = x
AskHttp == \E x \in H!HttpQuestions(ask) : ask' = x
AskEvidence == \E x \in E!EvidenceQuestions(ask) : ask' = x
AskEmbedding == \E x \in EmbedQuestions : ask' = x
AskScip == \E x \in Scip!ScipQuestions(ask) : ask' = x
Next == AskEmbedding \/ AskFiles \/ AskScip \/ AskEvidence \/ AskHttp \/ AskNames \/ AskOverview \/ AskClusters \/ AskCypher \/ AskWalk \/ AskSearch
Spec == Init /\ [][Next]_ask

\* A Cypher answer not marked truncated holds every row the pattern means.
CypherComplete == ask.topic = "cypher" => UntruncatedIsComplete(ask.g, ask.q)

\* search_graph, filter_by_degree and search_code: going through the pages
\* shows every match once, and two tools that count degrees agree.  Semantic
\* search: whatever the embedding server answers and whenever a pass is cut off,
\* every stored vector is that of its node and of the model it records.
SearchExact ==
    /\ ask.topic = "search" => /\ SearchPagesPartition(ask.g, ask.p)
                              /\ \A v \in 0..2 : DegreeToolsAgree(ask.g, ask.p, v)
    /\ ask.topic = "searchcode" => CodePagesPartition(ask.g, ask.disk, ask.glob, ask.step)
    /\ EmbeddingsHold

\* get_architecture, manage_adr and service_map: layers, hotspots, the file
\* tree and the services agree with the graph, an update of the decision record
\* keeps the sections it does not name, and every pass of community detection
\* that moves a node raises the modularity, in any order of the nodes; the stored
\* communities do not depend on the ids of the store while names can be read.
OverviewExact ==
    /\ ask.topic = "layers" =>
          LET g == ThingsGraph(ask.on)
          IN  Ar!LayersAreTrue(g) /\ Ar!HotspotsAreHottest(g) /\ Ar!ServicesAreShown(g, ask.libs)
    /\ ask.topic = "tree" => Ar!TreeIsWhole(Tree(ask.files))
    /\ ask.topic = "adr" => \A new \in Updates : Ar!UpdateKeepsSections(ask.content, new)
    /\ ask.topic = "clusters" =>
          LET g == FnGraph(ask.on)
          IN  /\ \A found \in BOOLEAN : Co!PassesRaiseModularity(g, found)
              /\ Co!RoundsRaiseModularity(g, Shuffled(ask.order))
              /\ Co!IdsDoNotMatter(g, ask.order)

\* Names resolve soundly: a call to what a file imports from elsewhere is not
\* taken for the project's own, a typed receiver keeps its type, the lsp_local
\* tier only adds, the nearest fixture counts, and Go types implement exactly
\* the interfaces whose methods they have.
NamesResolve ==
    /\ ask.topic = "calls of" => NamesExact(ask)
    /\ ask.topic = "fixtures" => Re!FixturesAreNearest(Facts({}), ask.order, ask.test, "y")
    /\ ask.topic = "go types" => Re!GoImplementsSound(ask.classes, GoIfaces, ask.methods)

\* Calls between services are linked soundly: routes carry the prefixes of all
\* scopes around them, a call of exactly a served path reaches the function
\* that serves it, linking again leaves nothing of what was linked before, and
\* a better match never scores lower.
LinksExact == H!HttpHolds(ask)

\* Evidence is what it says: a verdict is earned and more evidence moves it in
\* its own direction only, a reference that was altered is refused, a
\* relationship's observation says of its edge what the graph knows, spans are
\* counted once, and a CodeQL log is imported whole, its steps within their
\* files, or not at all.
EvidenceExact == E!EvidenceHolds(ask)

\* A compiler's index replaces the guessed calls between the files it still
\* describes by the calls of the program, and leaves every other edge alone.
ScipReplacesExactly == Scip!ScipHolds(ask)

\* The edges of a file that changed since the index was made stay.
StaleIndexKeepsEdges == Scip!StaleKept(ask)

\* The routes of a router that is included under a prefix answer under it.
IncludedRoutersArePrefixed == H!IncludesHold(ask)
=============================================================================
