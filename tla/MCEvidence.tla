----------------------------- MODULE MCEvidence -----------------------------
(* EvidenceSources for TLC: two functions, a stub and a community; edges of  *)
(* every provenance; a pool of observations for bundles; logs of two flows.  *)
EXTENDS Integers, Sequences, FiniteSets, TLC

CONSTANT None

Lower == [HIGH |-> "high", CALLS |-> "calls", HTTP_CALLS |-> "http_calls", CodeQL |-> "codeql"]
      @@ ("/X/" :> "/x") @@ ("./a" :> "a") @@ ("Variable_level_taint" :> "variable_level_taint")
MCCanonical(w) == IF w \in DOMAIN Lower THEN Lower[w] ELSE w
Widths == [a |-> <<5, 1, 9>>, b |-> <<4>>]
MCFileAt(uri) == IF uri \in {"a", "./a"} THEN "a" ELSE IF uri \in {"b", "latin"} THEN uri ELSE None

Ev == INSTANCE EvidenceSources WITH
        Canonical <- MCCanonical, Digests <- {"d1", "d2"}, FileAt <- MCFileAt,
        Columns <- LAMBDA path : IF path \in DOMAIN Widths THEN Widths[path] ELSE None

Identity == [repo |-> "r", rev |-> "v1", gen |-> "g1"]

-----------------------------------------------------------------------------
(* Relationships.                                                           *)

Node(label, qn, file) == [label |-> label, qn |-> qn, file |-> file, lines |-> <<1, 3>>]
Nodes == <<Node("Function", "f", "./a"), Node("Function", "h", "b"), Node("External", "x", ""),
           Node("Community", "c", "a")>>
Plain == [path |-> None, validated |-> FALSE, calls |-> None, band |-> None, confidence |-> 80,
          p99 |-> None, strategy |-> None, rule |-> None, tier |-> None, artifact |-> None]
Edge(s, t, type, props) == [src |-> s, tgt |-> t, type |-> type, props |-> props]
Http(path) == [Plain EXCEPT !.path = path, !.band = "low"]
GraphOf(props) ==
    [node |-> Nodes,
     edge |-> <<Edge(1, 2, "CALLS", props), Edge(1, 1, "CALLS", props), Edge(1, 3, "CALLS", props),
                Edge(1, 2, "HTTP_CALLS", Http("/x")), Edge(2, 1, "HTTP_CALLS", Http("/X/")),
                Edge(4, 1, "CALLS", props), Edge(2, 1, "CALLS", props)>>]

Span(key, path, ended) == [attrs |-> <<[key |-> key, path |-> path]>>, started |-> 1, ended |-> ended]
Spans == {<<>>, <<Span("http.route", "/x", 4)>>,
          <<Span("url.full", "", 4), Span("url.path", "/X/", 1), Span("http.target", "/x", 9)>>,
          <<Span("other", "/x", 3)>>}
Provenances ==
    {[Plain EXCEPT !.strategy = s, !.rule = r, !.band = b, !.tier = t, !.artifact = a] :
       s \in {None, "import_map", "scip-ingest"}, r \in {None, "route"}, b \in {None, "HIGH", "odd"},
       t \in {None, "INFERRED", "AMBIGUOUS", "odd"}, a \in {None, "d1", "D1"}}

\* What the observation says of its edge is what the graph knows of it.
EntryHolds(g, spans, entry) ==
    LET o == entry.observation
        capabilities == Ev!observationCapabilities(o)
        edge == g.edge[entry.edge]
        seen == {i \in DOMAIN spans : Ev!extractHTTPInfo(spans[i]) \in {"/x", "/X/"}}
    IN  /\ Ev!validateObservationRef(o)
        /\ "compiler_resolution" \in capabilities
              <=> edge.props.strategy = "scip-ingest" /\ edge.props.artifact = "d1"
        /\ "runtime_observation" \in capabilities => edge.type = "HTTP_CALLS" /\ seen # {}
        /\ entry.ref.count \in {0, Cardinality(seen)}

\* Each relationship of the focal symbol that an answer may name is an entry
\* of its own, and no more than the limit are shown.
RelationshipsHold(g, spans, q) ==
    LET confirmed == [g EXCEPT !.edge = Ev!matchSpansToEdges(@, spans)]
        mine == {i \in {1, 2, 4, 5, 7} :
                   LET e == g.edge[i]
                   IN  /\ \/ e.src = q.focal /\ q.direction \in {"outbound", "both"}
                          \/ e.tgt = q.focal /\ q.direction \in {"inbound", "both"}
                       /\ q.types # {} => e.type \in q.types
                       /\ q.related # None => Nodes[IF e.src = q.focal THEN e.tgt ELSE e.src].qn = q.related}
    IN  \A shown \in Ev!relationshipResults(Identity, confirmed, q) :
           /\ \A entry \in shown : EntryHolds(g, spans, entry)
           /\ {entry.edge : entry \in shown} \subseteq mine
           /\ Cardinality(shown) =
                 (IF q.limit < Cardinality(mine) THEN Ev!Limit(q) ELSE Cardinality(mine))

\* Spans confirm one call of their path, and count each span once.
SpansCountOnce(g, spans) ==
    LET edges == Ev!matchSpansToEdges(g.edge, spans)
        confirmed == {i \in DOMAIN edges : edges[i].props.validated}
    IN  /\ Cardinality(confirmed) <= 1
        /\ \A i \in DOMAIN edges : edges[i].props.calls # None <=> i \in confirmed

-----------------------------------------------------------------------------
(* Bundles.                                                                 *)

F == Ev!nodeSymbolRef(Identity, Nodes[1])
H == Ev!nodeSymbolRef(Identity, Nodes[2])
Related(by, artifact, band, runtime, count) ==
    Ev!NewRelationshipEvidenceRef(
      Ev!NewRelationshipRef(
        Identity @@ [type |-> "CALLS", by |-> by, source |-> F, target |-> H, artifact |-> artifact,
                     band |-> band, runtime |-> runtime, count |-> count]),
      IF runtime THEN "runtime_validated_relationship" ELSE "static_relationship")
Step(position, role, path) ==
    [position |-> position, role |-> role, path |-> path, region |-> <<1, 1, 1, 2>>]
Quality == [status |-> "pass", files |-> 1, baseline |-> 1, errors |-> 0]
Analysed(attestation) ==
    Ev!NewAnalysisEvidenceRef(
      Ev!NewAnalysisRef(
        Identity @@ [kind |-> "variable_level_taint", analyzer |-> "codeql", tool |-> <<"2.1", "x">>,
                     digests |-> <<"d1", "d2">>, quality |-> Quality, attestation |-> attestation,
                     query |-> "q", at |-> <<1, 1, 1>>,
                     steps |-> <<Step(0, "source", "a"), Step(1, "sink", "b")>>]))

Observed(stance, n) ==
    CASE n = 1 -> Ev!NewObservationRef(Related(<<"import_map">>, "", "high", FALSE, 0), stance,
                                       "code-graph", <<"import_map">>, "high")
      [] n = 2 -> Ev!NewObservationRef(Related(<<"scip-ingest">>, "d1", "high", FALSE, 0), stance,
                                       "code-graph", <<"scip-ingest">>, "high")
      [] n = 3 -> Ev!NewObservationRef(Related(<<"odd", "runtime_trace">>, "", "speculative", TRUE, 2),
                                       stance, "code-graph", <<"odd", "runtime_trace">>, "speculative")
      [] n = 4 -> Ev!NewObservationRef(Ev!NewEvidenceRef(Identity, "./a", <<1, 3>>, "semantic_match", F),
                                       stance, "semantic", <<"vector">>, "unknown")
      [] n = 5 -> Ev!NewObservationRef(Analysed("d2"), stance, "codeql", <<"codeql">>, "high")
      [] n = 6 -> Ev!NewObservationRef(Analysed(""), stance, "codeql", <<"codeql">>, "medium")
      [] OTHER -> Ev!NewObservationRef(Ev!NewEvidenceRef(Identity, "b", <<1, 1>>, "lexical_match", None),
                                       stance, "text", <<"ripgrep">>, "low")
Kinds == {"support", "contradict"} \X (1..7)
Observe(kinds) == [i \in DOMAIN kinds |-> Observed(kinds[i][1], kinds[i][2])]

Passing == [status |-> "pass", checked |-> 2, violations |-> 0, unresolved |-> 0]
Complete == [state |-> "complete", examined |-> 2, expected |-> 2, unresolved |-> 0]
Bundle == [version |-> 1, claim |-> Ev!NewClaimRef("r", "reachability", "f reaches h"),
           index |-> [coherent |-> TRUE, freshness |-> "current", gen |-> "g1"],
           search |-> [performed |-> TRUE, strategy |-> "callers", count |-> 0],
           coverage |-> Complete, invariant |-> None, required |-> None, observations |-> <<>>]
Headers ==
    {[Bundle EXCEPT !.index.coherent = FALSE], [Bundle EXCEPT !.index.freshness = "stale"],
     [Bundle EXCEPT !.index.gen = "g2"], [Bundle EXCEPT !.search.performed = FALSE],
     [Bundle EXCEPT !.coverage.state = "partial"], [Bundle EXCEPT !.coverage.unresolved = 1],
     [Bundle EXCEPT !.coverage.expected = None], [Bundle EXCEPT !.coverage.examined = 3],
     [Bundle EXCEPT !.invariant = Passing], [Bundle EXCEPT !.version = 2],
     [Bundle EXCEPT !.claim.text = "f never reaches h"]}
    \cup {[Bundle EXCEPT !.invariant = [Passing EXCEPT !.status = s, !.violations = v, !.unresolved = u]] :
            s \in {"pass", "fail", "unresolved"}, v \in 0..1, u \in 0..1}
Requirements == {None, <<>>, <<"compiler_resolution">>, <<"Variable_level_taint">>,
                 <<"structural_relationship", "runtime_observation">>,
                 <<"source_coordinates", "source_coordinates">>, <<"certainty">>}

\* Every value that differs from a reference in one place, but for those skipped.
Words == {"repo", "rev", "gen", "path", "kind", "name", "type", "band", "stance", "engine", "analyzer",
          "artifact", "attestation", "query", "role", "status"}
Numbers == {"count", "position", "files", "baseline", "errors", "version"}
RECURSIVE Altered(_, _, _)
Altered(skipped, name, v) ==
    CASE v = None -> {}
      [] name \in Words -> {"changed"}
      [] name \in Numbers -> {v + 1}
      [] name = "runtime" -> {~v}
      [] name = "id" -> {<<"forged">>}
      [] name \in {"lines", "region", "at"} -> {[v EXCEPT ![i] = @ + 1] : i \in DOMAIN v}
      [] name \in {"by", "tool", "digests"} ->
           {[v EXCEPT ![i] = "changed"] : i \in DOMAIN v} \cup {Append(v, "changed"), Tail(v)}
      [] name = "steps" ->
           UNION {{[v EXCEPT ![i] = s] : s \in Altered(skipped, "step", v[i])} : i \in DOMAIN v}
      [] OTHER -> UNION {{[v EXCEPT ![f] = w] : w \in Altered(skipped, f, v[f])} : f \in DOMAIN v \ skipped}

\* An observation of altered evidence in which all that encloses the change
\* was made anew.  The place beside a relationship or an analysis, and a symbol
\* beside an analysis, are not compared with it, and no version is read.
Unread == {"version"}
Again(o, e) == Ev!NewObservationRef(e, o.stance, o.engine, o.by, o.band)
Remade(o) ==
    LET e == o.evidence
        r == e.relationship
        a == e.analysis
        related(ref) == Again(o, Ev!NewRelationshipEvidenceRef(ref, e.type))
    IN  {Again(o, x) : x \in {x \in Altered(Unread, "evidence", e) :
                                r # None \/ a # None => x.path = e.path /\ x.lines = e.lines}}
        \cup (IF r = None THEN {}
              ELSE {Again(o, [e EXCEPT !.symbol = s]) : s \in {H, None}}
                   \cup {related(x) : x \in Altered(Unread, "relationship", r)}
                   \cup {related(Ev!NewRelationshipRef([Ev!Contents(r) EXCEPT !.source = s])) :
                           s \in Altered(Unread, "symbol", r.source)}
                   \cup {related(Ev!NewRelationshipRef([Ev!Contents(r) EXCEPT !.target = s])) :
                           s \in Altered(Unread, "symbol", r.target)})
        \cup (IF a = None THEN {}
              ELSE {Again(o, Ev!NewAnalysisEvidenceRef(x)) : x \in Altered(Unread, "analysis", a)})

-----------------------------------------------------------------------------
(* Imports.                                                                 *)

Location(uri, region) == [at |-> [uri |-> uri, base |-> "", index |-> None], region |-> region]
Regions == {<<1, 1, 1, 2>>, <<1, 0, 0, 5>>, <<1, 3, 1, 2>>, <<1, 1, 3, 9>>, <<3, 1, 1, 9>>, <<2, 2, 0, 2>>,
            <<1, 6, 3, 1>>, <<4, 1, 0, 1>>, <<1, 1, 0, 0>>}
Ats == [uri : {"", "a", "./a", "b", "latin", "gone"}, base : {"", "%SRCROOT%", "%HOME%"},
        index : {None, 0, 1, 2}]
Receipt == Identity @@ [version |-> 1, tool |-> <<"2.1", "x">>, digests |-> <<"d1", "d2">>,
                        quality |-> Quality, digest |-> "d1",
                        queries |-> <<[id |-> "q", kind |-> "variable_level_taint"],
                                      [id |-> "s", kind |-> "variable_level_taint"]>>]
Receipts == {Receipt, [Receipt EXCEPT !.gen = "g0"], [Receipt EXCEPT !.quality.errors = -1],
             [Receipt EXCEPT !.queries[2].id = "q"], [Receipt EXCEPT !.digests[2] = "D2"],
             [Receipt EXCEPT !.tool[2] = ""], [Receipt EXCEPT !.tool[1] = "2.0"],
             [Receipt EXCEPT !.queries = Tail(@)], [Receipt EXCEPT !.queries = <<>>]}
Result(rule, flows) == [rule |-> rule, flows |-> flows]
Log(results) ==
    [version |-> "2.1.0", digest |-> "d2",
     runs |-> <<[driver |-> "CodeQL", driverVersion |-> "2.1", pathRules |-> {"q", "s"},
                 artifacts |-> <<[uri |-> "a", base |-> "", index |-> None],
                                 [uri |-> "b", base |-> "%SRCROOT%", index |-> 0]>>,
                 results |-> results]>>]
Path(first, last) == <<Location("a", first), Location("b", <<1, 1, 1, 1>>), Location("a", last)>>
Short(at) == <<Location("b", <<1, 1, 1, 1>>), [at |-> at, region |-> <<1, 1, 1, 2>>]>>
Logs == {Log(<<Result(rule, <<<<Path(<<1, 1, 1, 2>>, last)>>, <<Path(first, <<1, 1, 1, 2>>), Path(first, last)>>>>),
               Result("other", <<<<<<>>>>>>)>>) : first \in Regions, last \in Regions, rule \in {"q", "s", "t"}}
        \cup {Log(<<Result("q", <<<<Short(at)>>>>)>>) : at \in Ats}

\* Every path of an attested query becomes one observation that stands for
\* taint, its steps within the lines of their files; otherwise nothing is.
ImportHolds(clean, receipt, log) ==
    LET results == log.runs[1].results
        attested == {receipt.queries[i].id : i \in DOMAIN receipt.queries}
        flows == UNION {UNION {{<<r, c, t>> : t \in DOMAIN results[r].flows[c]} : c \in DOMAIN results[r].flows} :
                          r \in {r \in DOMAIN results : results[r].rule \in attested}}
        places(step) ==
            LET s == step.region
            IN  /\ s[3] <= Len(Widths[step.path])
                /\ s[1] < s[3] \/ (s[1] = s[3] /\ s[2] <= s[4])
                /\ s[2] \in 1..Widths[step.path][s[1]] /\ s[4] \in 1..Widths[step.path][s[3]]
        standsFor(o) == Ev!validateObservationRef(o) /\ "variable_level_taint" \in Ev!observationCapabilities(o)
        whole(refs) == refs # None =>
          /\ clean /\ Ev!At(receipt) = Identity
          /\ {ref.analysis.at : ref \in refs} = flows /\ Cardinality(refs) = Cardinality(flows)
          /\ \A ref \in refs :
                /\ standsFor(Ev!NewObservationRef(ref, "support", "codeql", <<"codeql">>, "high"))
                /\ \A i \in DOMAIN ref.analysis.steps : places(ref.analysis.steps[i])
    IN  whole(Ev!Import(Identity, clean, receipt, log))

-----------------------------------------------------------------------------
EvidenceSeeds ==
    [topic : {"provenance"}, props : Provenances]
    \cup [topic : {"observations"}, first : Kinds \cup {None}]
    \cup [topic : {"sarif"}, receipt : Receipts]

EvidenceQuestions(seed) ==
    CASE seed.topic = "provenance" ->
           {[topic |-> "relationships", props |-> seed.props, spans |-> spans,
             q |-> [focal |-> focal, direction |-> d, types |-> ts, related |-> r, limit |-> l]] :
              spans \in Spans, focal \in 1..2, d \in {"inbound", "outbound", "both"},
              ts \in {{}, {"CALLS"}}, r \in {None, "h"}, l \in {0, 2, 600}}
      [] seed.topic = "observations" ->
           {[topic |-> "bundle", kinds |-> IF seed.first = None THEN <<>> ELSE <<seed.first>>,
             header |-> h, required |-> r] : h \in Headers, r \in Requirements}
           \cup {[topic |-> "bundle", kinds |-> IF seed.first = None THEN <<k>> ELSE <<seed.first, k>>,
                  header |-> Bundle, required |-> r] : k \in Kinds, r \in Requirements}
      [] seed.topic = "sarif" ->
           {[topic |-> "import", receipt |-> seed.receipt, clean |-> clean, log |-> log] :
              clean \in BOOLEAN, log \in Logs}
      [] OTHER -> {}

BundleHolds(b) ==
    /\ Ev!VerifiedIsEarned(b) /\ Ev!WeakerClaimFollows(b)
    /\ \A k \in Kinds : Ev!MoreEvidenceAgrees(b, Observed(k[1], k[2]))
EvidenceHolds(ask) ==
    /\ ask.topic = "relationships" =>
          LET g == GraphOf(ask.props)
          IN  RelationshipsHold(g, ask.spans, ask.q) /\ SpansCountOnce(g, ask.spans)
    /\ ask.topic = "bundle" =>
          BundleHolds([ask.header EXCEPT !.observations = Observe(ask.kinds), !.required = ask.required])
    /\ ask.topic = "observations" /\ ask.first # None =>
          LET o == Observed(ask.first[1], ask.first[2])
              b == [Bundle EXCEPT !.observations = <<Observed("support", 4), o>>]
          IN  Ev!AlteredIsRefused(b, 2, Altered({}, "observation", o) \cup Remade(o))
    /\ ask.topic = "import" => ImportHolds(ask.clean, ask.receipt, ask.log)
=============================================================================
