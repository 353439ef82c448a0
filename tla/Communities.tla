---------------------------- MODULE Communities ----------------------------
(* Communities of the call graph: the pass that stores them                 *)
(* (pipeline/communities.go) and the clusters of get_architecture           *)
(* (store/louvain.go, archClusters).  Both move one node at a time to the   *)
(* neighbouring community with the largest gain in modularity.  Gains are   *)
(* kept whole by multiplying them with what the code divides by.            *)
EXTENDS Integers, SequencesExt

CONSTANTS
    MaxPasses,    \* 50 passes over the nodes
    MinSize,      \* 3: smaller communities are not stored
    MaxRounds,    \* 10 rounds of moves and refinement
    RefineAbove,  \* 5: smaller communities are never split
    SparsePercent,  \* 1: nor are denser ones
    MinGraph,     \* 3 nodes and edges
    MaxClusters,  \* 15
    MaxTop        \* 5

CommunityBounds == {MaxPasses, MinSize, MaxRounds, MinGraph, MaxClusters, MaxTop} \subseteq Nat \ {0}

Least(S) == CHOOSE x \in S : \A y \in S : x <= y
Greatest(S) == CHOOSE x \in S : \A y \in S : y <= x
\* Sets of positive numbers in their order, and sums over them.
InOrder(S) == IF S = {} THEN <<>> ELSE SelectSeq([i \in 1..Greatest(S) |-> i], LAMBDA i : i \in S)
Sum(S, w(_)) == FoldLeft(LAMBDA n, x : n + w(x), 0, InOrder(S))

-----------------------------------------------------------------------------
(* The pass.  neighbours is the undirected graph, w the weight of a pair,   *)
(* at = [comm, total, moved]: the community of each node, the degrees in    *)
(* each community, whether a node moved.                                    *)

mapKeys(g) == UNION {{g.edge[e].src, g.edge[e].tgt} : e \in {e \in DOMAIN g.edge : g.edge[e].type = "CALLS"}}
adj(g) ==
    LET link(a, e) == IF e.type = "CALLS" THEN [a EXCEPT ![e.src] = @ \cup {e.tgt}, ![e.tgt] = @ \cup {e.src}] ELSE a
    IN  FoldLeft(link, [n \in mapKeys(g) |-> {}], g.edge)

\* Twice the square of the edges times the gain of having n in community c.
GainIn(a, at, n, c, edges) ==
    edges * Cardinality({m \in a[n] : at.comm[m] = c}) - Cardinality(a[n]) * at.total[c]

\* The first of the communities with the largest gain.
LargestGain(gain) == Least({c \in DOMAIN gain : \A d \in DOMAIN gain : gain[d] <= gain[c]})

\* One node: it is taken out of its community and put where the gain is largest.
MoveNode(a, at, n, edges) ==
    LET from == at.comm[n]
        out == [at EXCEPT !.total[from] = @ - Cardinality(a[n])]
        join(c) == [comm |-> [at.comm EXCEPT ![n] = c],
                    total |-> [out.total EXCEPT ![c] = @ + Cardinality(a[n])], moved |-> TRUE]
        settle(gain) == IF \A c \in DOMAIN gain : gain[c] <= 0 THEN at ELSE join(LargestGain(gain))
    IN  settle([c \in {at.comm[m] : m \in a[n]} \ {from} |->
                   GainIn(a, out, n, c, edges) - GainIn(a, out, n, from, edges)])

louvainIteration(a, at, order) ==
    LET edges == Sum(DOMAIN a, LAMBDA n : Cardinality(a[n]))
    IN  FoldLeft(LAMBDA x, n : MoveNode(a, x, n, edges), [at EXCEPT !.moved = FALSE], order)

\* The states after each pass; the last two are equal but for moved.
Passes(a, order) ==
    LET place(n) == CHOOSE i \in DOMAIN order : order[i] = n
        start == [comm |-> [n \in DOMAIN a |-> place(n)],
                  total |-> [i \in DOMAIN order |-> Cardinality(a[order[i]])], moved |-> TRUE]
        step(states, i) == IF Last(states).moved THEN Append(states, louvainIteration(a, Last(states), order))
                           ELSE states
    IN  FoldLeft(step, <<start>>, [i \in 1..MaxPasses |-> i])

\* The communities of MinSize nodes and more.
groupAndFilterMinSizeInOrder(comm) ==
    {S \in {{n \in DOMAIN comm : comm[n] = c} : c \in {comm[n] : n \in DOMAIN comm}} : Cardinality(S) >= MinSize}
louvainCommunitiesInOrder(a, order) == groupAndFilterMinSizeInOrder(Last(Passes(a, order)).comm)

\* Nodes in the order of their qualified names, or of their ids when looking
\* the names up has failed, which nobody is told.
NodeOrder(g, found) ==
    IF found THEN SelectSeq(g.byName, LAMBDA n : n \in mapKeys(g)) ELSE InOrder(mapKeys(g))

labelPriority(l) == SelectInSeq(<<"Class", "Interface", "Type", "Function", "Method">>, LAMBDA x : x = l)
\* One of the members whose kind comes first names the community.
topMemberNames(g, S) ==
    LET rank(n) == IF labelPriority(g.node[n].label) = 0 THEN 6 ELSE labelPriority(g.node[n].label)
    IN  {g.node[n].name : n \in {n \in S : \A m \in S : rank(n) <= rank(m)}}

\* What the pass adds to the graph; the Community nodes of an earlier run are deleted before it.
storeCommunities(g, communities) ==
    {[members |-> S, names |-> topMemberNames(g, S), symbol_count |-> Cardinality(S)] : S \in communities}
passCommunities(g, found) ==
    IF mapKeys(g) = {} THEN {}
    ELSE storeCommunities(g, louvainCommunitiesInOrder(adj(g), NodeOrder(g, found)))

-----------------------------------------------------------------------------
(* The clusters of the overview: weighted, calls of three kinds, orders     *)
(* that a seeded generator shuffles anew for each round, and a refinement   *)
(* that splits sparse communities after each round.                         *)

Callables(g) == {n \in DOMAIN g.node : g.node[n].label \in {"Function", "Method"}}
ClusterEdges(g) ==
    {e \in DOMAIN g.edge : /\ g.edge[e].type \in {"CALLS", "HTTP_CALLS", "ASYNC_CALLS"}
                           /\ {g.edge[e].src, g.edge[e].tgt} \subseteq Callables(g)}
\* The number of edges between two nodes, in either direction; none to itself.
edgeWeight(g) ==
    LET link(w, e) == LET a == g.edge[e].src b == g.edge[e].tgt
                      IN  IF a = b THEN w ELSE [w EXCEPT ![a][b] = @ + 1, ![b][a] = @ + 1]
    IN  FoldLeft(link, [n \in Callables(g) |-> [m \in Callables(g) |-> 0]], InOrder(ClusterEdges(g)))
Degree(w, n) == Sum(DOMAIN w, LAMBDA m : w[n][m])
DoubleWeight(w) == Sum(DOMAIN w, LAMBDA n : Degree(w, n))

\* A node stays unless another community is strictly better than its own.
MoveWeighted(w, double, at, n) ==
    LET from == at.comm[n]
        degree == Degree(w, n)
        total == [at.total EXCEPT ![from] = @ - degree]
        near == {at.comm[m] : m \in {m \in DOMAIN w : w[n][m] > 0}}
        join(c) == [comm |-> [at.comm EXCEPT ![n] = c], total |-> [total EXCEPT ![c] = @ + degree], moved |-> TRUE]
        settle(gain) == IF \A c \in near : gain[c] <= 0 \/ gain[c] <= gain[from] THEN at
                        ELSE join(LargestGain([c \in near |-> gain[c]]))
    IN  settle([c \in near \cup {from} |->
                   double * Sum({m \in DOMAIN w : at.comm[m] = c}, LAMBDA m : w[n][m]) - degree * total[c]])
louvainLocalMoving(w, at, order) ==
    LET add(t, n) == [t EXCEPT ![at.comm[n]] = @ + Degree(w, n)]
        total == FoldLeft(add, [c \in {at.comm[n] : n \in DOMAIN w} |-> 0], order)
    IN  FoldLeft(LAMBDA x, n : MoveWeighted(w, DoubleWeight(w), x, n),
                 [comm |-> at.comm, total |-> total, moved |-> FALSE], order)

\* Members of a large and sparse community that have less than half the
\* weight expected of them inside it become communities of their own.
refineCommunity(w, comm, c) ==
    LET members == {n \in DOMAIN comm : comm[n] = c}
        size == Cardinality(members)
        inside(n) == Sum(members, LAMBDA m : w[n][m])
        doubled == Sum(members, inside)
        loose == {n \in members : inside(n) * DoubleWeight(w) < Degree(w, n) * doubled}
        fresh == 1 + Greatest({comm[n] : n \in DOMAIN comm})
        rank(n) == Cardinality({m \in loose : m < n})
    IN  IF size <= RefineAbove \/ doubled * 100 >= SparsePercent * size * (size - 1) THEN comm
        ELSE [n \in DOMAIN comm |-> IF n \in loose THEN fresh + rank(n) ELSE comm[n]]
louvainRefine(w, comm) ==
    LET all == {comm[n] : n \in DOMAIN comm}
    IN  FoldLeft(LAMBDA x, c : refineCommunity(w, x, c), comm, InOrder(all))

\* The states after the moves and after the refinement of each round.
Rounds(w, orders) ==
    LET refined(moved) == <<moved, [moved EXCEPT !.comm = louvainRefine(w, @)]>>
        step(states, i) == IF i > 1 /\ ~Last(states).moved THEN states
                           ELSE states \o refined(louvainLocalMoving(w, Last(states), orders[i]))
    IN  FoldLeft(step, <<[comm |-> [n \in DOMAIN w |-> n], total |-> <<>>, moved |-> FALSE]>>, [i \in 1..MaxRounds |-> i])
louvain(w, orders) == IF DoubleWeight(w) = 0 THEN [n \in DOMAIN w |-> n] ELSE Last(Rounds(w, orders)).comm

\* The clusters of two members and more, the largest first.
archClusters(g, orders) ==
    LET comm == louvain(edgeWeight(g), orders)
        groups == {S \in {{n \in DOMAIN comm : comm[n] = comm[m]} : m \in DOMAIN comm} : Cardinality(S) >= 2}
        touching(S) == {e \in ClusterEdges(g) : {g.edge[e].src, g.edge[e].tgt} \cap S # {}}
        inside(S) == {e \in touching(S) : {g.edge[e].src, g.edge[e].tgt} \subseteq S}
        cluster(S) == [members |-> S, inside |-> Cardinality(inside(S)), touching |-> Cardinality(touching(S)),
                       types |-> {g.edge[e].type : e \in inside(S)}]
    IN  IF Cardinality(Callables(g)) < MinGraph \/ Cardinality(ClusterEdges(g)) < MinGraph THEN {{}}
        ELSE {{cluster(S) : S \in T} :
                T \in {T \in SUBSET groups :
                        /\ Cardinality(T) = IF Cardinality(groups) < MaxClusters THEN Cardinality(groups) ELSE MaxClusters
                        /\ \A S \in T, R \in groups \ T : Cardinality(S) >= Cardinality(R)}}

-----------------------------------------------------------------------------
\* Modularity, times the square of the doubled weight.
Modularity(w, comm) ==
    LET term(n, m) == DoubleWeight(w) * w[n][m] - Degree(w, n) * Degree(w, m)
    IN  Sum(DOMAIN w, LAMBDA n : Sum({m \in DOMAIN w : comm[m] = comm[n]}, LAMBDA m : term(n, m)))

\* Every pass that reports a move has raised the modularity, and one that
\* reports none has changed nothing: the passes end by themselves.
PassesRaiseModularity(g, found) ==
    LET a == adj(g)
        w == [n \in DOMAIN a |-> [m \in DOMAIN a |-> IF m \in a[n] THEN 1 ELSE 0]]
        raise(states) ==
            /\ \A i \in 2..Len(states) :
                  IF states[i].moved THEN Modularity(w, states[i - 1].comm) < Modularity(w, states[i].comm)
                  ELSE states[i].comm = states[i - 1].comm
            /\ Len(states) < MaxPasses => ~Last(states).moved
    IN  raise(Passes(a, NodeOrder(g, found)))

\* The moves of a round never lower the modularity; only a refinement may.
RoundsRaiseModularity(g, orders) ==
    LET w == edgeWeight(g)
        raise(states) ==
            \A i \in 1..((Len(states) - 1) \div 2) :
                LET before == Modularity(w, states[2 * i - 1].comm)
                    after == Modularity(w, states[2 * i].comm)
                IN  IF states[2 * i].moved THEN before < after ELSE before = after
    IN  raise(Rounds(w, orders))

\* The communities are those of the names: they do not depend on the ids the
\* store gave to the nodes, as long as the names can be looked up.
IdsDoNotMatter(g, rename) ==
    LET renamed == [node |-> [n \in DOMAIN g.node |-> g.node[CHOOSE m \in DOMAIN g.node : rename[m] = n]],
                    edge |-> [e \in DOMAIN g.edge |->
                                [g.edge[e] EXCEPT !.src = rename[@], !.tgt = rename[@]]],
                    byName |-> [i \in DOMAIN g.byName |-> rename[g.byName[i]]]]
    IN  {c.members : c \in passCommunities(renamed, TRUE)} =
            {{rename[n] : n \in c.members} : c \in passCommunities(g, TRUE)}
=============================================================================
