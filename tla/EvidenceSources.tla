-------------------------- MODULE EvidenceSources --------------------------
(***************************************************************************)
(* Where observations come from: the relationships of the graph with their *)
(* provenance (tools/relationship_evidence.go), search results             *)
(* (tools/evidence_refs.go), spans that confirm HTTP calls (traces) and     *)
(* attested CodeQL paths (codeqlimport).                                    *)
(* A graph is a sequence of nodes and a sequence of edges, whose properties *)
(* the resolver, SCIP ingestion and trace ingestion set.                    *)
(***************************************************************************)
EXTENDS Evidence

CONSTANTS
    FileAt(_),      \* the regular file of the repository a URI resolves to, or None
    Columns(_)      \* its lines' widths plus one, or None if it is not UTF-8

-----------------------------------------------------------------------------
(* Spans: attributes in the order they were recorded.                       *)

\* The path a span is about; the last attribute that names one wins.
extractHTTPInfo(span) ==
    LET at == {i \in DOMAIN span.attrs :
                 /\ span.attrs[i].key \in {"http.route", "http.target", "url.path", "url.full"}
                 /\ span.attrs[i].key = "url.full" => span.attrs[i].path # ""}
    IN  IF at = {} THEN ""
        ELSE span.attrs[CHOOSE i \in at : \A j \in at : j <= i].path

calculateP99(values) == SortSeq(values, <)[((Len(values) * 99) \div 100) + 1]

Confirmed(props, durations, n) ==
    LET raised == props.confidence # None /\ props.confidence < 90
    IN  [props EXCEPT
           !.validated = TRUE, !.calls = n,
           !.band = IF raised THEN "high" ELSE @,
           !.confidence = IF raised THEN IF @ + 15 > 100 THEN 100 ELSE @ + 15 ELSE @,
           !.p99 = IF durations # <<>> THEN calculateP99(durations) ELSE @]

\* Of the edges with one path, the last one read stands for all.
matchSpansToEdges(edges, spans) ==
    LET pathOf(i) == Canonical(edges[i].props.path)
        named == {i \in DOMAIN edges : edges[i].type = "HTTP_CALLS" /\ edges[i].props.path # None}
        last(i) == i \in named /\ \A j \in named : pathOf(j) = pathOf(i) => j <= i
        on(i) == SelectSeq(spans, LAMBDA s : /\ extractHTTPInfo(s) # ""
                                              /\ Canonical(extractHTTPInfo(s)) = pathOf(i))
        durations(i) == LET timed == SelectSeq(on(i), LAMBDA s : s.ended > s.started)
                        IN  [k \in DOMAIN timed |-> timed[k].ended - timed[k].started]
    IN  [i \in DOMAIN edges |->
           IF last(i) /\ on(i) # <<>>
           THEN [edges[i] EXCEPT !.props = Confirmed(@, durations(i), Len(on(i)))]
           ELSE edges[i]]

-----------------------------------------------------------------------------
(* Relationships.                                                           *)

\* ConfidenceTier: an edge without a tier is an extracted one.
Tier(props) == IF props.tier = None THEN "EXTRACTED" ELSE props.tier

relationshipConfidenceBand(props) ==
    CASE props.validated -> "high"
      [] props.band # None /\ Canonical(props.band) \in Bands -> Canonical(props.band)
      [] OTHER -> CASE Tier(props) = "EXTRACTED" -> "high"
                    [] Tier(props) = "INFERRED" -> "medium"
                    [] Tier(props) = "AMBIGUOUS" -> "low"
                    [] OTHER -> "unknown"

relationshipResolutionSource(props) ==
    (CASE props.strategy # None -> <<props.strategy>>
       [] props.rule # None -> <<props.rule>>
       [] OTHER -> <<Canonical(Tier(props))>>)
    \o (IF props.validated THEN <<"runtime_trace">> ELSE <<>>)

relationshipObservationCount(props) ==
    IF props.calls # None /\ props.calls > 0 THEN props.calls ELSE 0

relationshipResolutionArtifact(props, source) ==
    IF props.artifact \in Digests /\ "scip-ingest" \in ElementsOf(source)
    THEN props.artifact ELSE ""

nodeSymbolRef(identity, node) ==
    NewSymbolRef([repo |-> identity.repo, rev |-> identity.rev, path |-> node.file,
                  kind |-> node.label, name |-> node.qn, lines |-> node.lines])

relationshipRef(identity, g, i) ==
    LET edge == g.edge[i]
        source == relationshipResolutionSource(edge.props)
    IN  NewRelationshipRef(
          identity @@
          [type |-> edge.type, by |-> source,
           source |-> nodeSymbolRef(identity, g.node[edge.src]),
           target |-> nodeSymbolRef(identity, g.node[edge.tgt]),
           artifact |-> relationshipResolutionArtifact(edge.props, source),
           band |-> relationshipConfidenceBand(edge.props),
           runtime |-> edge.props.validated,
           count |-> relationshipObservationCount(edge.props)])

relationshipEntry(identity, g, i) ==
    LET ref == relationshipRef(identity, g, i)
    IN  [edge |-> i, ref |-> ref,
         observation |->
           NewObservationRef(
             NewRelationshipEvidenceRef(ref, IF ref.runtime THEN "runtime_validated_relationship"
                                             ELSE "static_relationship"),
             "support", "code-graph", relationshipResolutionSource(g.edge[i].props), ref.band)]

\* A query names a focal symbol, a direction, allowed types and the other end.
Limit(q) == IF q.limit < 1 THEN 1 ELSE IF q.limit > 500 THEN 500 ELSE q.limit

\* A self-loop is met outbound first, so its other end is its target.
Other(g, q, i) ==
    IF q.direction # "inbound" /\ g.edge[i].src = q.focal THEN g.edge[i].tgt ELSE g.edge[i].src

collectRelationshipCandidates(g, q) ==
    {i \in DOMAIN g.edge : \/ q.direction # "inbound" /\ g.edge[i].src = q.focal
                           \/ q.direction # "outbound" /\ g.edge[i].tgt = q.focal}

Asked(g, q) ==
    {i \in collectRelationshipCandidates(g, q) :
       /\ q.types # {} => g.edge[i].type \in q.types
       /\ q.related # None => g.node[Other(g, q, i)].qn = q.related}

IsSurfaceableCodeNode(node) == node.file # "" /\ node.label # "Community"
Addressable(g, i) == /\ IsSurfaceableCodeNode(g.node[g.edge[i].src])
                     /\ IsSurfaceableCodeNode(g.node[g.edge[i].tgt])

\* No more than the limit; which of too many are kept is left open.
relationshipResults(identity, g, q) ==
    LET all == {i \in Asked(g, q) : Addressable(g, i)}
    IN  {{relationshipEntry(identity, g, i) : i \in kept} : kept \in
          {k \in SUBSET all :
             Cardinality(k) = IF Cardinality(all) < Limit(q) THEN Cardinality(all) ELSE Limit(q)}}

\* A search result with a place becomes an observation of unknown confidence.
withGraphEvidenceRefs(identity, result) ==
    IF result.path = "" \/ result.name = "" \/ result.lines[1] < 0
       \/ result.lines[2] < result.lines[1]
    THEN None
    ELSE LET symbol == NewSymbolRef([repo |-> identity.repo, rev |-> identity.rev,
                                     path |-> result.path, kind |-> result.label,
                                     name |-> result.name, lines |-> result.lines])
         IN  NewObservationRef(
               NewEvidenceRef(identity, result.path, result.lines, "graph_match", symbol),
               "support", "code-graph", <<"graph_filter_match">>, "unknown")

-----------------------------------------------------------------------------
(* Attested CodeQL paths.                                                   *)

\* The location with what the run's artifact table says, or None.
resolveArtifactLocation(artifacts, loc) ==
    LET known == loc.index # None /\ loc.index \in 0..(Len(artifacts) - 1)
        entry == artifacts[loc.index + 1]
        agree(own, other) == own = "" \/ other = "" \/ own = other
        either(own, other) == IF own = "" THEN other ELSE own
        uri == IF known THEN either(loc.uri, entry.uri) ELSE loc.uri
        base == IF known THEN either(loc.base, entry.base) ELSE loc.base
    IN  IF /\ loc.index = None \/ known
           /\ known => entry.index = None /\ agree(loc.uri, entry.uri)
                       /\ agree(loc.base, entry.base)
           /\ base \in {"", "%SRCROOT%"}
        THEN [uri |-> uri, base |-> base] ELSE None

\* SARIF's defaults for an omitted start column and end line, which are zero.
Completed(region) ==
    <<region[1], IF region[2] = 0 THEN 1 ELSE region[2],
      IF region[3] = 0 THEN region[1] ELSE region[3], region[4]>>

InArtifact(path, region) ==
    LET columns == Columns(path)
    IN  /\ columns # None
        /\ region[1] <= Len(columns) /\ region[3] <= Len(columns)
        /\ region[2] <= columns[region[1]] /\ region[4] <= columns[region[3]]

StepAt(artifacts, locations, i) ==
    LET loc == resolveArtifactLocation(artifacts, locations[i].at)
        path == IF loc = None THEN None ELSE FileAt(loc.uri)
        region == Completed(locations[i].region)
    IN  IF path # None /\ validateRegion(region) /\ InArtifact(path, region)
        THEN [position |-> i - 1, role |-> RoleAt(i, Len(locations)), path |-> path,
              region |-> region]
        ELSE None

importPathSteps(artifacts, locations) ==
    LET steps == [i \in DOMAIN locations |-> StepAt(artifacts, locations, i)]
    IN  IF Len(locations) >= 2 /\ None \notin ElementsOf(steps) THEN steps ELSE None

validateReceipt(receipt, identity) ==
    /\ receipt.version = SchemaVersion
    /\ At(receipt) = identity
    /\ "" \notin ElementsOf(receipt.tool)
    /\ ElementsOf(receipt.digests) \subseteq Digests
    /\ QualityPasses(receipt.quality)
    /\ receipt.queries # <<>>
    /\ \A i \in DOMAIN receipt.queries :
          /\ receipt.queries[i].id # "" /\ receipt.queries[i].kind = "variable_level_taint"
          /\ \A j \in DOMAIN receipt.queries :
                receipt.queries[i].id = receipt.queries[j].id => i = j

\* Where the thread flows of attested results are.
Flows(run, attested) ==
    UNION {UNION {{<<r, c, t>> : t \in DOMAIN run.results[r].flows[c]} :
                     c \in DOMAIN run.results[r].flows} :
              r \in {r \in DOMAIN run.results : run.results[r].rule \in attested}}

\* The references of a SARIF log under a receipt, or None if it is refused.
Import(identity, clean, receipt, log) ==
    LET run == log.runs[1]
        attested == {receipt.queries[i].id : i \in DOMAIN receipt.queries}
        flows == Flows(run, attested)
        steps(f) == importPathSteps(run.artifacts, run.results[f[1]].flows[f[2]][f[3]])
        analysis(f) ==
            NewAnalysisRef(identity @@
              [kind |-> "variable_level_taint", analyzer |-> "codeql", tool |-> receipt.tool,
               digests |-> receipt.digests \o <<log.digest>>, quality |-> receipt.quality,
               attestation |-> receipt.digest, query |-> run.results[f[1]].rule, at |-> f,
               steps |-> steps(f)])
    IN  IF /\ clean
           /\ validateReceipt(receipt, identity)
           /\ log.version = "2.1.0" /\ Len(log.runs) = 1
           /\ Canonical(run.driver) \in {"codeql", "codeql command-line toolchain"}
           /\ run.driverVersion = receipt.tool[1]
           /\ \A r \in DOMAIN run.results :
                 run.results[r].rule \in attested => run.results[r].rule \in run.pathRules
           /\ flows # {}
           /\ \A f \in flows : steps(f) # None
        THEN {NewAnalysisEvidenceRef(analysis(f)) : f \in flows}
        ELSE None
=============================================================================
