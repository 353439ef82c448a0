------------------------------ MODULE Evidence ------------------------------
(***************************************************************************)
(* internal/evidence: references whose identifiers are made of their own   *)
(* canonical contents, the validation that recomputes them, and the        *)
(* verdict on a bundle of observations.  A text is a word, and Canonical   *)
(* what trimming, lower-casing and path cleaning make of it; a resolution  *)
(* source is the sequence of its "+"-separated parts.                      *)
(***************************************************************************)
EXTENDS Integers, Sequences, FiniteSets, TLC

CONSTANTS
    Canonical(_),   \* the canonical form of a word
    Digests,        \* the words that are 64 lower-case hexadecimal digits
    None            \* an absent reference, count or verdict

SchemaVersion == 1
Bands == {"high", "medium", "low", "speculative", "unknown"}
Capabilities == {"source_coordinates", "semantic_retrieval", "lexical_retrieval",
                 "structural_relationship", "compiler_resolution", "runtime_observation",
                 "variable_level_taint"}

ElementsOf(s) == {s[i] : i \in DOMAIN s}
CanonicalAll(s) == [i \in DOMAIN s |-> Canonical(s[i])]

\* stableID hashes what it is given: two identifiers are equal exactly when
\* the kinds and the contents are.
stableID(prefix, contents) == <<prefix, contents>>
Extended(ref, field, v) == [f \in DOMAIN ref \cup {field} |-> IF f = field THEN v ELSE ref[f]]
Identified(prefix, contents) ==
    LET versioned == Extended(contents, "version", SchemaVersion)
    IN  Extended(versioned, "id", stableID(prefix, versioned))
\* What a constructor is given to make a reference again: its version is not read.
Contents(ref) == [f \in DOMAIN ref \ {"id", "version"} |-> ref[f]]

-----------------------------------------------------------------------------
(* References.                                                              *)

NewSymbolRef(f) ==
    Identified("sym", [f EXCEPT !.path = Canonical(@), !.kind = Canonical(@)])

NewRelationshipRef(f) ==
    Identified("rel", [f EXCEPT !.type = Canonical(@), !.by = CanonicalAll(@),
                                !.artifact = Canonical(@), !.band = Canonical(@),
                                !.count = IF @ < 0 THEN 0 ELSE @])

NewAnalysisRef(f) ==
    Identified("analysis",
        [f EXCEPT !.tool = CanonicalAll(@), !.quality.status = Canonical(@),
                  !.attestation = Canonical(@),
                  !.steps = [i \in DOMAIN @ |->
                      [@[i] EXCEPT !.role = Canonical(@), !.path = Canonical(@)]]])

At(ref) == [repo |-> ref.repo, rev |-> ref.rev, gen |-> ref.gen]

NewEvidenceRef(at, path, lines, type, symbol) ==
    Identified("ev", at @@ [path |-> Canonical(path), lines |-> lines, type |-> Canonical(type),
                            symbol |-> symbol, relationship |-> None, analysis |-> None])
NewRelationshipEvidenceRef(r, type) ==
    Identified("ev", At(r) @@ [path |-> r.source.path, lines |-> r.source.lines,
                               type |-> Canonical(type), symbol |-> r.source,
                               relationship |-> r, analysis |-> None])
NewAnalysisEvidenceRef(a) ==
    LET source == a.steps[1]
    IN  Identified("ev", At(a) @@ [path |-> source.path,
                                   lines |-> <<source.region[1], source.region[3]>>,
                                   type |-> "codeql_path", symbol |-> None,
                                   relationship |-> None, analysis |-> a])

NewObservationRef(evidence, stance, engine, by, band) ==
    Identified("obs", [evidence |-> evidence, stance |-> Canonical(stance),
                       engine |-> Canonical(engine), by |-> CanonicalAll(by),
                       band |-> Canonical(band)])
NewClaimRef(repo, kind, text) ==
    Identified("claim", [repo |-> repo, kind |-> Canonical(kind), text |-> text])

-----------------------------------------------------------------------------
(* Validation.                                                              *)

validateSymbolRef(s) == s = None \/ s.id = NewSymbolRef(Contents(s)).id

ArtifactHolds(r) ==
    r.artifact = "" \/ (r.artifact \in Digests /\ "scip-ingest" \in ElementsOf(r.by))

validateRelationshipRef(r) ==
    /\ \A s \in {r.source, r.target} :
          validateSymbolRef(s) /\ s.repo = r.repo /\ s.rev = r.rev
    /\ r.band \in Bands
    /\ ArtifactHolds(r)
    /\ r.runtime <=> r.count # 0
    /\ r.id = NewRelationshipRef(Contents(r)).id

validateRegion(region) ==
    /\ \A i \in 1..4 : region[i] > 0
    /\ region[3] >= region[1]
    /\ region[3] = region[1] => region[4] >= region[2]

RoleAt(i, n) == IF i = 1 THEN "source" ELSE IF i = n THEN "sink" ELSE "intermediate"

QualityPasses(q) == q.status = "pass" /\ q.files > 0 /\ q.baseline > 0 /\ q.errors >= 0

validateAnalysisRef(a) ==
    /\ a.kind = "variable_level_taint" /\ a.analyzer = "codeql"
    /\ QualityPasses(a.quality)
    /\ ElementsOf(a.digests) \subseteq Digests
    /\ a.attestation \in Digests \cup {""}
    /\ Len(a.steps) >= 2
    /\ \A i \in DOMAIN a.steps :
          /\ a.steps[i].position = i - 1
          /\ a.steps[i].role = RoleAt(i, Len(a.steps))
          /\ validateRegion(a.steps[i].region)
    /\ a.id = NewAnalysisRef(Contents(a)).id

validateEvidenceRef(e) ==
    /\ validateSymbolRef(e.symbol)
    /\ e.relationship = None \/ e.analysis = None
    /\ e.analysis # None =>
          /\ validateAnalysisRef(e.analysis)
          /\ At(e.analysis) = At(e)
          /\ e.type = "codeql_path"
          /\ e.id = NewAnalysisEvidenceRef(e.analysis).id
    /\ e.relationship # None =>
          /\ validateRelationshipRef(e.relationship)
          /\ At(e.relationship) = At(e)
          /\ e.symbol # None /\ e.relationship.source.id = e.symbol.id
          /\ e.id = NewRelationshipEvidenceRef(e.relationship, e.type).id
    /\ e.analysis = None /\ e.relationship = None =>
          e.id = NewEvidenceRef(At(e), e.path, e.lines, e.type, e.symbol).id

validateObservationRef(o) ==
    /\ validateEvidenceRef(o.evidence)
    /\ o.stance \in {"support", "contradict"}
    /\ o.band \in Bands
    /\ o.engine # "" /\ o.by # <<>>
    /\ o.evidence.relationship # None =>
          o.evidence.relationship.band = o.band /\ o.evidence.relationship.by = o.by
    /\ o.id = NewObservationRef(o.evidence, o.stance, o.engine, o.by, o.band).id

validateProofHeader(b) ==
    /\ b.version = SchemaVersion
    /\ b.claim.id = NewClaimRef(b.claim.repo, b.claim.kind, b.claim.text).id
    /\ b.index.gen # ""
    /\ b.index.freshness \in {"current", "stale", "unknown"}
    /\ b.search.strategy # "" /\ b.search.count >= 0

validateCoverage(c) ==
    /\ c.state \in {"complete", "partial", "unknown"}
    /\ c.examined >= 0 /\ c.unresolved >= 0
    /\ c.expected # None => c.expected >= c.examined
    /\ c.state = "complete" => c.expected = c.examined

validateObservations(b) ==
    /\ \A i \in DOMAIN b.observations :
          LET o == b.observations[i]
          IN  /\ validateObservationRef(o)
              /\ o.evidence.repo = b.claim.repo
              /\ o.evidence.gen = b.index.gen
    /\ \A i, j \in DOMAIN b.observations :
          b.observations[i].id = b.observations[j].id => i = j

validateInvariant(v) ==
    v # None =>
       /\ v.status \in {"pass", "fail", "unresolved"}
       /\ v.checked >= 0 /\ v.violations >= 0 /\ v.unresolved >= 0
       /\ v.status = "pass" => v.violations = 0 /\ v.unresolved = 0
       /\ v.status = "fail" => v.violations # 0

validateAssuranceRequirement(required) ==
    required # None =>
       /\ required # <<>>
       /\ ElementsOf(CanonicalAll(required)) \subseteq Capabilities
       /\ Cardinality(ElementsOf(CanonicalAll(required))) = Len(required)

Validate(b) ==
    /\ validateProofHeader(b)
    /\ validateCoverage(b.coverage)
    /\ validateObservations(b)
    /\ validateInvariant(b.invariant)
    /\ validateAssuranceRequirement(b.required)

-----------------------------------------------------------------------------
(* The verdict.                                                             *)

observationCapabilities(o) ==
    LET e == o.evidence
        a == e.analysis
        r == e.relationship
    IN  {"source_coordinates"}
        \cup {c \in {"semantic_retrieval"} : e.type \in {"semantic_match", "hybrid_match"}}
        \cup {c \in {"lexical_retrieval"} : e.type = "lexical_match"}
        \cup {c \in {"variable_level_taint"} :
                e.type = "codeql_path" /\ a # None /\ a.attestation # ""}
        \cup {c \in {"structural_relationship"} : r # None}
        \cup {c \in {"compiler_resolution"} :
                r # None /\ "scip-ingest" \in ElementsOf(r.by) /\ r.artifact # ""}
        \cup {c \in {"runtime_observation"} : r # None /\ r.runtime}

Missing(required, observations) ==
    required \ UNION {observationCapabilities(o) : o \in observations}

\* A bug: supporting evidence that has every required capability goes first.
SatisfiedBySupportFirst(required, supporting, contradicting) ==
    IF required = {} THEN None
    ELSE IF supporting # {} /\ Missing(required, supporting) = {} THEN "support"
    ELSE IF contradicting # {} /\ Missing(required, contradicting) = {} THEN "contradiction"
    ELSE None

\* Contradicting evidence that has every required capability goes first.
SatisfiedBy(required, supporting, contradicting) ==
    IF required = {} THEN None
    ELSE IF contradicting # {} /\ Missing(required, contradicting) = {} THEN "contradiction"
    ELSE IF supporting # {} /\ Missing(required, supporting) = {} THEN "support"
    ELSE None

isTrustedSupport(o) ==
    \/ o.band \in {"high", "medium"}
    \/ o.evidence.relationship # None /\ o.evidence.relationship.runtime

incompleteProofCaveats(b, supporting, unresolved, assured) ==
    {c \in {"contradiction_search_not_performed"} : ~b.search.performed}
    \cup {c \in {"coverage_incomplete"} : b.coverage.state # "complete"}
    \cup {c \in {"coverage_has_unresolved_subjects"} : b.coverage.unresolved > 0}
    \cup {c \in {"invariant_unresolved"} : unresolved}
    \cup {c \in {"no_supporting_evidence"} : supporting = {}}
    \cup {c \in {"supporting_evidence_not_trustworthy"} :
            supporting # {} /\ ~\E o \in supporting : isTrustedSupport(o)}
    \cup {c \in {"required_assurance_not_satisfied"} : ~assured}

proofConfidence(verdict, supporting, contradicting) ==
    CASE verdict = "blocked" -> "unknown"
      [] verdict = "contradicted" -> IF contradicting # {} THEN "high" ELSE "medium"
      [] verdict = "unresolved" -> "low"
      [] OTHER -> IF \/ Cardinality({o.engine : o \in supporting}) >= 2
                     \/ Cardinality({o.by : o \in supporting}) >= 2
                  THEN "high" ELSE "medium"

Observed(b) == ElementsOf(b.observations)
Contradicting(b) == {o \in Observed(b) : o.stance = "contradict"}
Supporting(b) == Observed(b) \ Contradicting(b)
Required(b) == IF b.required = None THEN {} ELSE ElementsOf(CanonicalAll(b.required))
Satisfied(b) == SatisfiedBy(Required(b), Supporting(b), Contradicting(b))
Assured(b, by) == Required(b) = {} \/ Satisfied(b) = by

Blockers(b) ==
    {x \in {"cross_engine_index_incoherent"} : ~b.index.coherent} \cup ({b.index.freshness} \ {"current"})
InvariantFailed(b) ==
    b.invariant # None /\ (b.invariant.status = "fail" \/ b.invariant.violations > 0)
InvariantUnresolved(b) ==
    b.invariant # None /\ (b.invariant.status = "unresolved" \/ b.invariant.unresolved > 0)
Against(b) == Contradicting(b) # {} \/ InvariantFailed(b)

Caveats(b) ==
    IF Blockers(b) # {} THEN {}
    ELSE IF Against(b)
    THEN {c \in {"required_assurance_not_satisfied"} : ~Assured(b, "contradiction")}
    ELSE incompleteProofCaveats(b, Supporting(b), InvariantUnresolved(b), Assured(b, "support"))
Verdict(b) ==
    IF Blockers(b) # {} THEN "blocked"
    ELSE IF Caveats(b) # {} THEN "unresolved"
    ELSE IF Against(b) THEN "contradicted" ELSE "verified"

Proof(b) ==
    [claim |-> b.claim.id, gen |-> b.index.gen, verdict |-> Verdict(b),
     supporting |-> {o.id : o \in Supporting(b)}, contradicting |-> {o.id : o \in Contradicting(b)},
     blockers |-> Blockers(b), caveats |-> Caveats(b),
     required |-> Required(b), satisfied |-> Satisfied(b)]
Judged(b) ==
    Extended(Identified("proof", Proof(b)), "confidence",
             proofConfidence(Verdict(b), Supporting(b), Contradicting(b)))

\* None stands for the error of a bundle that does not validate.
EvaluateProof(b) == IF Validate(b) THEN Judged(b) ELSE None

-----------------------------------------------------------------------------
(* What a verdict means.                                                    *)

\* A verified claim has a live coherent index, a search for counterexamples
\* that found none, complete coverage, no violated or unresolved invariant,
\* a trustworthy observation, and each required capability in some observation.
VerifiedIsEarned(b) ==
    LET p == EvaluateProof(b)
    IN  p # None /\ p.verdict = "verified" =>
          /\ b.index.coherent /\ b.index.freshness = "current" /\ b.search.performed
          /\ b.coverage.expected = b.coverage.examined /\ b.coverage.unresolved = 0
          /\ b.invariant # None => b.invariant.violations + b.invariant.unresolved = 0
          /\ \A i \in DOMAIN b.observations : b.observations[i].stance = "support"
          /\ \E i \in DOMAIN b.observations : isTrustedSupport(b.observations[i])
          /\ b.required # None =>
                \A k \in DOMAIN b.required : \E i \in DOMAIN b.observations :
                   Canonical(b.required[k]) \in observationCapabilities(b.observations[i])

With(b, o) == [b EXCEPT !.observations = Append(@, o)]

\* More evidence only ever moves a verdict in the evidence's direction: support
\* does not undo a contradiction or a verification, nor lower its confidence,
\* and a contradiction undoes a verification.
MoreEvidenceAgrees(b, o) ==
    LET agree(p, q) ==
          p # None /\ q # None =>
            /\ (p.verdict = "blocked") <=> (q.verdict = "blocked")
            /\ o.stance = "support" =>
                 /\ p.verdict \in {"contradicted", "verified"} => q.verdict = p.verdict
                 /\ p.verdict # "blocked" /\ q.verdict = "contradicted" => p.verdict = q.verdict
                 /\ p.confidence = "high" => q.confidence = "high"
            /\ o.stance = "contradict" =>
                 /\ q.verdict # "verified"
                 /\ p.verdict = "contradicted" /\ p.confidence = "high" => q = [p EXCEPT
                       !.contradicting = q.contradicting, !.id = q.id]
    IN  agree(EvaluateProof(b), EvaluateProof(With(b, o)))

\* What is shown under required capabilities is shown without them.
WeakerClaimFollows(b) ==
    LET follows(p, q) == p # None /\ p.verdict \in {"verified", "contradicted"} =>
            q # None /\ q.verdict = p.verdict
    IN  follows(EvaluateProof(b), EvaluateProof([b EXCEPT !.required = None]))

\* A bundle with an observation that was altered after it was made is refused,
\* unless it is altered in its version alone: validation makes the identifier
\* anew from the version of this code, and the proof comes out the same.
AlteredIsRefused(b, i, altered) ==
    \A o \in altered :
       LET c == [b EXCEPT !.observations[i] = o]
       IN  IF o = [b.observations[i] EXCEPT !.version = o.version]
           THEN EvaluateProof(c) = EvaluateProof(b)
           ELSE EvaluateProof(c) = None
=============================================================================
